---- MODULE Spec2Model ----
(***************************************************************************)
(* FloatingLabels (src/src/ui/Labels.js): the label collection, the label  *)
(* placement geometry, the edit modal and the per-frame update().          *)
(*                                                                         *)
(* Lengths are integers in units of 0.005 world units, so that the z       *)
(* layers of update() (0.005, 0.01) and the default sizes (1.5, 0.4, 0.5,  *)
(* 0.1) are exact: 1.5 is 300, 0.4 is 80, 0.5 is 100, 0.1 is 20.  Box      *)
(* sizes are drawn from even numbers, so that width / 2 and height / 2 are *)
(* exact as they are in the floating point code.  Opacities are in         *)
(* hundredths (0.8 is 80).                                                 *)
(***************************************************************************)
EXTENDS Integers, Sequences, FiniteSets, TLC

VARIABLES
    labels,                 \* this.labels: the Map, as a sequence of [id, label] in insertion order
    groupChildren,          \* this.labelsGroup.children: the handles of the attached containers
    labelsGroup,            \* this.labelsGroup: [visible, inScene] or NullObj
    camera,                 \* this.camera (the viewer's camera object): [position, quaternion] or NullObj
    editMode,               \* this.editMode
    selectedLabelId,        \* this.selectedLabelId, NoId for null
    editUI,                 \* this.editUI: [display] or NullObj
    pendingCursorPosition,  \* this.pendingCursorPosition, NoVec for undefined / null
    clickHandler,           \* this.clickHandler is registered on the canvas
    callbacks,              \* which host callbacks this.callbacks holds
    form,                   \* the values of the modal's input elements
    presetsBar,             \* the Presets instance of the page, NullObj where there is none
    fx                      \* what the last operation did: calls made to the host and to three.js

vars == <<labels, groupChildren, labelsGroup, camera, editMode, selectedLabelId,
          editUI, pendingCursorPosition, clickHandler, callbacks, form, presetsBar, fx>>

-----------------------------------------------------------------------------
(* Values *)

NullObj == [null |-> TRUE]     \* null or undefined, where an object is expected
NoId == "null"                 \* null, where a label id is expected
NoVec == <<>>                  \* null or undefined, where a vector is expected

Ids == {"a", "b"}
Texts == {"A", "B"}
Anchors == {<<0, 0, 0>>, <<300, 0, 0>>}

\* THREE.Vector3 arithmetic
VAdd(u, v) == <<u[1] + v[1], u[2] + v[2], u[3] + v[3]>>
VSub(u, v) == <<u[1] - v[1], u[2] - v[2], u[3] - v[3]>>
VScale(k, v) == <<k * v[1], k * v[2], k * v[3]>>
Dot(u, v) == u[1] * v[1] + u[2] * v[2] + u[3] * v[3]
Zero3 == <<0, 0, 0>>

\* { ...a, ...b }
Spread(a, b) == [k \in (DOMAIN a) \cup (DOMAIN b) |-> IF k \in DOMAIN b THEN b[k] ELSE a[k]]

\* The camera poses: an orbit around the origin at distance 1000, looking at it.
\* Column 0 of matrixWorld (the camera's right vector) for each quaternion.
CameraRightOf(q) ==
    CASE q = "front" -> <<1, 0, 0>>
      [] q = "back" -> <<-1, 0, 0>>
      [] q = "side" -> <<0, 0, -1>>

Cameras ==
    { [position |-> <<0, 0, 1000>>, quaternion |-> "front"],
      [position |-> <<0, 0, -1000>>, quaternion |-> "back"],
      [position |-> <<1000, 0, 0>>, quaternion |-> "side"],
      [position |-> <<300, 0, 0>>, quaternion |-> "front"] }

-----------------------------------------------------------------------------
(* Options *)

getDefaultLabelOptions ==
    [ width |-> 300, height |-> 80,
      backgroundColor |-> "#333333", textColor |-> "#ffffff",
      opacity |-> 80,
      showConnector |-> TRUE, connectorPosition |-> "top",
      connectorWidth |-> 2, connectorLength |-> 100, connectorColor |-> "#ffffff",
      font |-> "Bold 24px Arial", padding |-> 10,
      depthTest |-> TRUE, sizeAttenuation |-> TRUE,
      visible |-> TRUE,
      renderOrderBackground |-> 1, renderOrderText |-> 2, renderOrderConnector |-> 0,
      calculatedVisualOffset |-> Zero3,
      connectorTarget |-> Zero3 ]

\* The options a caller sets: the configuration of the data model, and the explicit offset.
UserOptionKeys ==
    { "width", "height", "backgroundColor", "textColor", "opacity", "showConnector",
      "connectorPosition", "connectorWidth", "connectorLength", "connectorColor",
      "font", "visible", "offset" }

\* The option objects callers pass to addLabel and updateLabelText.
NoOptions == [k \in {} |-> 0]
OptionPatches ==
    { NoOptions,
      [connectorPosition |-> "left"],
      [connectorPosition |-> "right", width |-> 200],
      [connectorPosition |-> "bottom", connectorLength |-> 60],
      [connectorPosition |-> "top", height |-> 40],
      [showConnector |-> FALSE],
      [offset |-> <<-700, 30, 4>>],
      [offset |-> NoVec],
      [backgroundColor |-> "#ff0000", opacity |-> 50] }

\* if (options.offset)
HasOffset(o) == "offset" \in DOMAIN o /\ o.offset # NoVec

-----------------------------------------------------------------------------
(* Label placement geometry *)

NoConnectorGap == 20

\* Mutant: the gap of the connector is left out above the anchor
calculateVisualOffset_noGapOnTop(options) ==
    LET width == options.width
        height == options.height
        connectorLength == IF options.showConnector THEN options.connectorLength ELSE 0
        connectorPosition == options.connectorPosition
        visualOffset ==
            IF options.showConnector
            THEN CASE connectorPosition = "top" -> <<0, height \div 2, 0>>
                   [] connectorPosition = "left" -> <<width \div 2 + connectorLength, 0, 0>>
                   [] connectorPosition = "right" -> <<-(width \div 2 + connectorLength), 0, 0>>
                   [] OTHER -> <<0, -(height \div 2 + connectorLength), 0>>
            ELSE <<0, height \div 2 + NoConnectorGap, 0>>
    IN  IF HasOffset(options) THEN VAdd(visualOffset, options.offset) ELSE visualOffset

calculateVisualOffset(options) ==
    LET width == options.width
        height == options.height
        connectorLength == IF options.showConnector THEN options.connectorLength ELSE 0
        connectorPosition == options.connectorPosition
        visualOffset ==
            IF options.showConnector
            THEN CASE connectorPosition = "top" -> <<0, height \div 2 + connectorLength, 0>>
                   [] connectorPosition = "left" -> <<width \div 2 + connectorLength, 0, 0>>
                   [] connectorPosition = "right" -> <<-(width \div 2 + connectorLength), 0, 0>>
                   [] OTHER -> <<0, -(height \div 2 + connectorLength), 0>>
            ELSE <<0, height \div 2 + NoConnectorGap, 0>>
    IN  IF HasOffset(options) THEN VAdd(visualOffset, options.offset) ELSE visualOffset

\* Mutant: the left and the right edge are taken for each other
calculateConnectorStartPoint_swapped(visualOffset, options) ==
    LET width == options.width
        height == options.height
    IN  CASE options.connectorPosition = "top" -> VSub(visualOffset, <<0, height \div 2, 0>>)
          [] options.connectorPosition = "bottom" -> VAdd(visualOffset, <<0, height \div 2, 0>>)
          [] options.connectorPosition = "left" -> VAdd(visualOffset, <<width \div 2, 0, 0>>)
          [] options.connectorPosition = "right" -> VSub(visualOffset, <<width \div 2, 0, 0>>)
          [] OTHER -> VSub(visualOffset, <<0, height \div 2, 0>>)

calculateConnectorStartPoint(visualOffset, options) ==
    LET width == options.width
        height == options.height
    IN  CASE options.connectorPosition = "top" -> VSub(visualOffset, <<0, height \div 2, 0>>)
          [] options.connectorPosition = "bottom" -> VAdd(visualOffset, <<0, height \div 2, 0>>)
          [] options.connectorPosition = "left" -> VSub(visualOffset, <<width \div 2, 0, 0>>)
          [] options.connectorPosition = "right" -> VAdd(visualOffset, <<width \div 2, 0, 0>>)
          [] OTHER -> VSub(visualOffset, <<0, height \div 2, 0>>)

\* The direction of  _cameraRight.clone().projectOnPlane(camToLabelDir).normalize()
\* with camToLabelDir = connectorTarget - camera.position, normalized.  Only the sign
\* of its dot product is used, so the vector is kept unnormalized, scaled by the
\* positive |d|^2: r - d (r.d)/|d|^2 becomes |d|^2 r - (r.d) d.  A zero d (camera on
\* the anchor) normalizes to zero in three.js and the projection leaves r as it is.
screenRight(cam, connectorTarget) ==
    LET r == CameraRightOf(cam.quaternion)
        d == VSub(connectorTarget, cam.position)
    IN  IF Dot(d, d) = 0 THEN r ELSE VSub(VScale(Dot(d, d), r), VScale(Dot(r, d), d))

\* Mutant: every flip goes to the left
flippedSide_alwaysLeft(intendedPosition) == "left"

\* const flippedSide = intendedPosition === "left" ? "right" : "left"
flippedSide(intendedPosition) == IF intendedPosition = "left" THEN "right" ELSE "left"

\* Mutant: a zero dot product flips too
needsFlip_onZero(options, cam) ==
    LET intendedPosition == options.connectorPosition
    IN  /\ options.showConnector
        /\ intendedPosition \in {"left", "right"}
        /\ LET dot == Dot(calculateVisualOffset(options), screenRight(cam, options.connectorTarget))
           IN  \/ (intendedPosition = "left" /\ dot <= 0)
               \/ (intendedPosition = "right" /\ dot >= 0)

\* update(), step 2: whether the label is drawn on the opposite lateral side this frame
needsFlip(options, cam) ==
    LET intendedPosition == options.connectorPosition
    IN  /\ options.showConnector
        /\ intendedPosition \in {"left", "right"}
        /\ LET dot == Dot(calculateVisualOffset(options), screenRight(cam, options.connectorTarget))
           IN  \/ (intendedPosition = "left" /\ dot < 0)
               \/ (intendedPosition = "right" /\ dot > 0)

\* update(), step 2: the offset to apply this frame
targetVisualOffset(options, cam) ==
    IF needsFlip(options, cam)
    THEN calculateVisualOffset(
             Spread(options, [connectorPosition |-> flippedSide(options.connectorPosition)]))
    ELSE options.calculatedVisualOffset

-----------------------------------------------------------------------------
(* Colors *)

EditModeColor == "#9966ff"
SelectedColor == "#ffaa55"
EditModeOpacity == 90
SelectedOpacity == 95

\* The color values of the model.  The strings that start with "#":
HashStrings ==
    {"#333333", "#ff0000", "#ffffff", "#9966ff", "#ffaa55", "#000000", "#00ff00", "#12"}
\* THREE.Color objects, written as their constructor calls
ThreeColors == {"THREE.Color(0x00ff00)"}
\* Other strings: a CSS color name, a CSS color with an alpha, a string that is no color
OtherColorStrings == {"red", "rgba(255, 0, 0, 0.5)", "notacolor"}

\* color.startsWith("#")
startsWithHash(color) == color \in HashStrings

\* Number.prototype.toString(16) of 0..15
HexDigit(n) ==
    CASE n = 0 -> "0" [] n = 1 -> "1" [] n = 2 -> "2" [] n = 3 -> "3" [] n = 4 -> "4"
      [] n = 5 -> "5" [] n = 6 -> "6" [] n = 7 -> "7" [] n = 8 -> "8" [] n = 9 -> "9"
      [] n = 10 -> "a" [] n = 11 -> "b" [] n = 12 -> "c" [] n = 13 -> "d" [] n = 14 -> "e"
      [] n = 15 -> "f"

\* n.toString(16).padStart(2, "0") for n in 0..255
toHex2(n) == HexDigit(n \div 16) \o HexDigit(n % 16)

\* color.getHexString() of a THREE.Color
getHexString(color) ==
    CASE color = "THREE.Color(0x00ff00)" -> toHex2(0) \o toHex2(255) \o toHex2(0)

\* The text color a div inherits from document.body when its own declaration is
\* dropped: the user agent's default, black
InheritedColor == [rgb |-> <<0, 0, 0>>, alpha |-> 100]

\* window.getComputedStyle(tempDiv).color after tempDiv.style.color = color: the
\* parsed color, or the inherited one when the CSS parser rejects the value
computedColor(color) ==
    CASE color = "red" -> [rgb |-> <<255, 0, 0>>, alpha |-> 100]
      [] color = "rgba(255, 0, 0, 0.5)" -> [rgb |-> <<255, 0, 0>>, alpha |-> 50]
      [] OTHER -> InheritedColor

\* computedColor.match(/rgb\((\d+),\s*(\d+),\s*(\d+)\)/): an opaque color is
\* serialized "rgb(r, g, b)" and matches, any other "rgba(r, g, b, a)" and does not
matchesRgb(computed) == computed.alpha = 100

colorToHex(color) ==
    IF startsWithHash(color) THEN color
    ELSE IF color \in ThreeColors THEN "#" \o getHexString(color)
    ELSE LET computed == computedColor(color)
         IN  IF matchesRgb(computed)
             THEN "#" \o toHex2(computed.rgb[1]) \o toHex2(computed.rgb[2])
                      \o toHex2(computed.rgb[3])
             ELSE "#333333"

\* THREE.Color.set(value) on a color that is current, as "#rrggbb": a THREE.Color is
\* copied; a "#" string of three or six hex digits and a color name are parsed; of
\* "rgba(r, g, b, a)" the alpha is dropped; any other string is reported on the
\* console and leaves the color as it is
colorSet(current, value) ==
    IF value \in ThreeColors THEN "#" \o getHexString(value)
    ELSE IF value \in HashStrings THEN (IF value = "#12" THEN current ELSE value)
    ELSE CASE value = "red" -> "#ff0000"
           [] value = "rgba(255, 0, 0, 0.5)" -> "#ff0000"
           [] OTHER -> current

\* new THREE.Color(value): a new color is white
newColor(value) == colorSet("#ffffff", value)

-----------------------------------------------------------------------------
(* The visual elements of a label *)

ConnectorInitZ == -2

createBackgroundMesh(width, height, options) ==
    [ position |-> Zero3, width |-> width, height |-> height,
      color |-> newColor(options.backgroundColor), opacity |-> options.opacity,
      visible |-> TRUE ]

\* Numbers that are no integers.  NaN stands for the IEEE NaN; NotNumeric for an
\* option value such as "wide", which is truthy and converts to NaN.
NaN == -1000000
NotNumeric == -1000001

\* a + b, a * b and Math.max(a, b) of JavaScript on numbers that may be NaN
JsToNumber(a) == IF a = NotNumeric THEN NaN ELSE a
JsAdd(a, b) == IF JsToNumber(a) = NaN \/ JsToNumber(b) = NaN THEN NaN ELSE a + b
JsMul(a, b) == IF JsToNumber(a) = NaN \/ JsToNumber(b) = NaN THEN NaN ELSE a * b
JsMax(a, b) == IF a = NaN \/ b = NaN THEN NaN ELSE IF a >= b THEN a ELSE b

\* context.measureText(line).width in "Bold 24px Arial", in pixels
measureTextWidth(line) ==
    CASE line = "" -> 0
      [] line = "New Label" -> 120
      [] OTHER -> 17

MinCanvasWidth == 100
MinCanvasHeight == 50
CanvasScale == 8
\* Math.ceil(totalTextHeight + padding * 2) for one line of estimatedLineHeight
\* 24 * 1.2 = 28.8 and an integer padding: 29 + padding * 2
LineHeightCeil == 29

\* The canvas size createTextSprite computes, <<canvasWidthPixels * scale,
\* canvasHeightPixels * scale>>
canvasSize(text, options) ==
    LET padding == IF options.padding \in {0, NaN} THEN 10 ELSE options.padding
        maxTextWidth == JsMax(0, measureTextWidth(text))
        canvasWidthPixels == JsMax(MinCanvasWidth, JsAdd(maxTextWidth, JsMul(padding, 2)))
        canvasHeightPixels == JsMax(MinCanvasHeight, JsAdd(LineHeightCeil, JsMul(padding, 2)))
    IN  <<JsMul(canvasWidthPixels, CanvasScale), JsMul(canvasHeightPixels, CanvasScale)>>

\* The value canvas.width holds after canvas.width = v: NaN is stored as 0
canvasDimension(v) == IF v = NaN THEN 0 ELSE v

\* The sprite always carries the canvas texture: no other material is ever made
createTextSprite(text, options) ==
    LET size == canvasSize(text, options)
    IN  [ position |-> Zero3, text |-> text, color |-> options.textColor, visible |-> TRUE,
          material |-> [map |-> <<canvasDimension(size[1]), canvasDimension(size[2])>>] ]

createConnector(visualOffset, options) ==
    [ start |-> calculateConnectorStartPoint(visualOffset, options), end |-> Zero3,
      z |-> ConnectorInitZ, visible |-> TRUE ]

\* Throws when this.camera is missing; the callers check.
createLabelObject(targetPosition, text, options, cam, handle) ==
    LET initialVisualOffset == calculateVisualOffset(options)
        opts == Spread(options, [calculatedVisualOffset |-> initialVisualOffset])
    IN  [ container |-> [ handle |-> handle, position |-> targetPosition,
                          quaternion |-> cam.quaternion, visible |-> opts.visible ],
          background |-> [createBackgroundMesh(opts.width, opts.height, opts)
                              EXCEPT !.position = initialVisualOffset],
          textSprite |-> [createTextSprite(text, opts) EXCEPT !.position = initialVisualOffset],
          connector |-> IF opts.showConnector
                        THEN createConnector(initialVisualOffset, opts) ELSE NullObj,
          text |-> text,
          options |-> opts,
          currentAppliedOffset |-> initialVisualOffset,
          original |-> NullObj ]    \* originalColor / originalOpacity, set and deleted together

-----------------------------------------------------------------------------
(* The Map this.labels *)

Has(ls, id) == \E i \in 1..Len(ls) : ls[i].id = id
IndexOf(ls, id) == CHOOSE i \in 1..Len(ls) : ls[i].id = id
Get(ls, id) == ls[IndexOf(ls, id)].label
MapSet(ls, id, label) ==
    IF Has(ls, id) THEN [ls EXCEPT ![IndexOf(ls, id)].label = label]
    ELSE Append(ls, [id |-> id, label |-> label])
MapDelete(ls, id) == SelectSeq(ls, LAMBDA e : e.id # id)
KeysOf(ls) == {ls[i].id : i \in 1..Len(ls)}
KeySeq(ls) == [i \in 1..Len(ls) |-> ls[i].id]

\* A handle for a new THREE.Group: the least one no live container has
NewHandle(s) ==
    LET used == s.groupChildren \cup {s.labels[i].label.container.handle : i \in 1..Len(s.labels)}
    IN  CHOOSE h \in 1..(Cardinality(used) + 1) :
            h \notin used /\ \A g \in 1..(Cardinality(used) + 1) : g \notin used => h <= g

-----------------------------------------------------------------------------
(* The methods, as functions of the state s they run in.  s holds the fields  *)
(* a method can change; fx records the calls it makes.                        *)

Cur ==
    [ labels |-> labels, groupChildren |-> groupChildren, camera |-> camera,
      editMode |-> editMode, selectedLabelId |-> selectedLabelId, editUI |-> editUI,
      pendingCursorPosition |-> pendingCursorPosition, form |-> form, fx |-> fx ]

NoFx(op, id) ==
    [ op |-> op, id |-> id,
      options |-> NoOptions,  \* the options argument of addLabel and updateLabelText
      threw |-> FALSE,      \* the operation ended in an exception
      released |-> <<>>,    \* dispose() calls: <<container handle, what>>
      detached |-> <<>>,    \* parent.remove() calls: <<container handle, what>>
      removed |-> <<>>,     \* the label objects taken out of the Map, as they were left
      notified |-> <<>>,    \* the arrays passed to callbacks.onLabelsUpdate
      modalOpen |-> 0,      \* calls of callbacks.onModalOpen
      modalClose |-> 0,     \* calls of callbacks.onModalClose
      args |-> <<>>,        \* viewer.update(...args): the caller's arguments
      calls |-> <<>>,       \* viewer.update(): the functions it ran, in order
      frames |-> <<>> ]     \* update(): per label, the flip decision and whether it wrote

Begin(op, id) == [Cur EXCEPT !.fx = NoFx(op, id)]
BeginWith(op, id, options) == [Cur EXCEPT !.fx = [NoFx(op, id) EXCEPT !.options = options]]

Throw(s) == [s EXCEPT !.fx.threw = TRUE]

notifyUpdate(s) ==
    IF callbacks.onLabelsUpdate
    THEN LET allCurrentLabelsData ==
                 [i \in 1..Len(s.labels) |->
                     [ id |-> s.labels[i].id,
                       position |-> s.labels[i].label.options.connectorTarget,
                       text |-> s.labels[i].label.text,
                       options |-> s.labels[i].label.options ]]
         IN  [s EXCEPT !.fx.notified = Append(@, allCurrentLabelsData)]
    ELSE s

\* Mutant: the connector is left as it is
cleanupLabelElements_keepsConnector(label) ==
    LET h == label.container.handle
        t == label.textSprite # NullObj
        b == label.background # NullObj
    IN  [ label |-> [label EXCEPT !.textSprite = NullObj, !.background = NullObj],
          detached |-> (IF t THEN <<<<h, "textSprite">>>> ELSE <<>>)
                       \o (IF b THEN <<<<h, "background">>>> ELSE <<>>),
          released |-> (IF t THEN << <<h, "textSprite.material.map">>,
                                     <<h, "textSprite.material">> >> ELSE <<>>)
                       \o (IF b THEN << <<h, "background.material">>,
                                        <<h, "background.geometry">> >> ELSE <<>>) ]

\* [label, released, detached] after cleanupLabelElements(label)
cleanupLabelElements(label) ==
    LET h == label.container.handle
        t == label.textSprite # NullObj
        b == label.background # NullObj
        c == label.connector # NullObj
    IN  [ label |-> [label EXCEPT !.textSprite = NullObj, !.background = NullObj,
                                  !.connector = NullObj],
          detached |-> (IF t THEN <<<<h, "textSprite">>>> ELSE <<>>)
                       \o (IF b THEN <<<<h, "background">>>> ELSE <<>>)
                       \o (IF c THEN <<<<h, "connector">>>> ELSE <<>>),
          released |-> (IF t THEN << <<h, "textSprite.material.map">>,
                                     <<h, "textSprite.material">> >> ELSE <<>>)
                       \o (IF b THEN << <<h, "background.material">>,
                                        <<h, "background.geometry">> >> ELSE <<>>)
                       \o (IF c THEN << <<h, "connector.material">>,
                                        <<h, "connector.geometry">> >> ELSE <<>>) ]

\* What removeLabel does to a label that is in the Map
removeExisting(s, id, notify) ==
    LET cl == cleanupLabelElements(Get(s.labels, id))
        h == cl.label.container.handle
        attached == h \in s.groupChildren
        s1 == [s EXCEPT
                 !.labels = MapDelete(@, id),
                 !.groupChildren = @ \ {h},
                 !.fx.released = @ \o cl.released,
                 !.fx.detached = @ \o cl.detached
                                   \o (IF attached THEN <<<<h, "container">>>> ELSE <<>>),
                 !.fx.removed = Append(@, [id |-> id, label |-> cl.label])]
    IN  IF notify THEN notifyUpdate(s1) ELSE s1

\* Mutant: notifies whenever asked to, also when there was nothing to delete
removeLabel_notifiesAlways(s, id, notify) ==
    IF ~Has(s.labels, id) THEN (IF notify THEN notifyUpdate(s) ELSE s)
    ELSE removeExisting(s, id, notify)

removeLabel(s, id, notify) ==
    IF ~Has(s.labels, id) THEN s
    ELSE removeExisting(s, id, notify)

RECURSIVE RemoveEach(_, _)
RemoveEach(s, labelIds) ==
    IF labelIds = <<>> THEN s
    ELSE RemoveEach(removeLabel(s, Head(labelIds), FALSE), Tail(labelIds))

\* Mutant: empties the Map and the group without releasing the labels
clearAllLabels_dropsOnly(s, notify) ==
    LET hadLabels == Len(s.labels) > 0
        s1 == [s EXCEPT !.labels = <<>>, !.groupChildren = {}]
    IN  IF hadLabels /\ notify THEN notifyUpdate(s1) ELSE s1

clearAllLabels(s, notify) ==
    LET hadLabels == Len(s.labels) > 0
        s1 == RemoveEach(s, KeySeq(s.labels))
    IN  IF hadLabels /\ notify THEN notifyUpdate(s1) ELSE s1

\* Mutant: an id already present keeps its old container in the group
addLabelInternal_keepsOld(s, id, position, text, options) ==
    LET targetPosition == position
        finalOptions == Spread(Spread(getDefaultLabelOptions, options),
                               [connectorTarget |-> targetPosition])
    IN  IF s.camera = NullObj THEN Throw(s)
        ELSE LET label == createLabelObject(targetPosition, text, finalOptions, s.camera,
                                            NewHandle(s))
             IN  [s EXCEPT !.labels = MapSet(@, id, label),
                           !.groupChildren = @ \cup {label.container.handle}]

addLabelInternal(s, id, position, text, options) ==
    LET s1 == IF Has(s.labels, id) THEN removeLabel(s, id, FALSE) ELSE s
        targetPosition == position
        finalOptions == Spread(Spread(getDefaultLabelOptions, options),
                               [connectorTarget |-> targetPosition])
    IN  IF s.camera = NullObj THEN Throw(s1)
        ELSE LET label == createLabelObject(targetPosition, text, finalOptions, s.camera,
                                            NewHandle(s1))
             IN  [s1 EXCEPT !.labels = MapSet(@, id, label),
                            !.groupChildren = @ \cup {label.container.handle}]

\* Mutant: the label is added without telling the host
addLabel_silent(s, id, position, text, options) ==
    addLabelInternal(s, id, position, text, options)

addLabel(s, id, position, text, options) ==
    LET s1 == addLabelInternal(s, id, position, text, options)
    IN  IF s1.fx.threw THEN s1 ELSE notifyUpdate(s1)

\* labelsData.forEach of addLabels: an exception of one element ends the loop.  Each
\* element works on the state the one before it left (added is that state, computed
\* once).
RECURSIVE AddEach(_, _)
AddEach(s, labelsData) ==
    IF labelsData = <<>> \/ s.fx.threw THEN s
    ELSE LET labelData == Head(labelsData)
         IN  CHOOSE done \in
                 { AddEach(added, Tail(labelsData)) :
                     added \in {addLabelInternal(s, labelData.id, labelData.position,
                                                 labelData.text, labelData.options)} } : TRUE

\* labelsData is what the host passed: isArray is Array.isArray(labelsData), items
\* its elements
addLabels(s, labelsData, notify) ==
    IF ~labelsData.isArray THEN s
    ELSE LET changed == Len(labelsData.items) > 0
         IN  CHOOSE done \in
                 { IF s1.fx.threw THEN s1
                   ELSE IF changed /\ notify THEN notifyUpdate(s1) ELSE s1 :
                     s1 \in {AddEach(s, labelsData.items)} } : TRUE

\* Mutant: the visibility is set on the container and not stored in the options
setLabelVisibility_containerOnly(s, id, visible) ==
    IF ~Has(s.labels, id) THEN s
    ELSE LET label == Get(s.labels, id)
         IN  [s EXCEPT !.labels = MapSet(@, id, [label EXCEPT !.container.visible = visible])]

setLabelVisibility(s, id, visible) ==
    IF ~Has(s.labels, id) THEN s
    ELSE LET label == Get(s.labels, id)
         IN  [s EXCEPT !.labels = MapSet(@, id,
                 [label EXCEPT !.container.visible = visible, !.options.visible = visible])]

updateLabelPosition(s, id, newPosition) ==
    IF ~Has(s.labels, id) THEN s
    ELSE LET label == Get(s.labels, id)
         IN  [s EXCEPT !.labels = MapSet(@, id,
                 [label EXCEPT !.container.position = newPosition,
                               !.options.connectorTarget = newPosition])]

\* The options whose change makes updateLabelText redraw the whole label
AppearanceKeys ==
    { "width", "height", "backgroundColor", "opacity", "showConnector", "connectorPosition",
      "connectorWidth", "connectorLength", "connectorColor", "textColor", "font" }

\* mergedOptions.offset !== oldOptions.offset: an offset the caller passes is a new
\* object, different from the stored one; an offset not passed is the stored object.
offsetChanged(oldOptions, newOptions) ==
    /\ "offset" \in DOMAIN newOptions
    /\ \/ newOptions.offset # NoVec
       \/ HasOffset(oldOptions)

\* Mutant: the stored options are layered over the new ones
mergeOptions_oldWins(oldOptions, newOptions) ==
    Spread(Spread(getDefaultLabelOptions, newOptions), oldOptions)

\* const mergedOptions = { ...defaults, ...oldOptions, ...newOptions }
mergeOptions(oldOptions, newOptions) ==
    Spread(Spread(getDefaultLabelOptions, oldOptions), newOptions)

updateLabelText(s, id, newText, newOptions, forceFullRedraw) ==
    IF ~Has(s.labels, id) THEN s
    ELSE
    LET label == Get(s.labels, id)
        h == label.container.handle
        oldOptions == label.options
        mergedOptions == mergeOptions(oldOptions, newOptions)
        appearanceChanged ==
            \/ forceFullRedraw
            \/ \E k \in AppearanceKeys : mergedOptions[k] # oldOptions[k]
            \/ offsetChanged(oldOptions, newOptions)
    IN  IF appearanceChanged
        THEN LET cl == cleanupLabelElements(label)
                 newInitialVisualOffset == calculateVisualOffset(mergedOptions)
                 opts == Spread(mergedOptions, [calculatedVisualOffset |-> newInitialVisualOffset])
                 redrawn ==
                     [cl.label EXCEPT
                        !.text = newText,
                        !.options = opts,
                        !.currentAppliedOffset = newInitialVisualOffset,
                        !.background = [createBackgroundMesh(opts.width, opts.height, opts)
                                            EXCEPT !.position = newInitialVisualOffset],
                        !.textSprite = [createTextSprite(newText, opts)
                                            EXCEPT !.position = newInitialVisualOffset],
                        !.connector = IF opts.showConnector
                                      THEN createConnector(newInitialVisualOffset, opts)
                                      ELSE NullObj]
             IN  [s EXCEPT !.labels = MapSet(@, id, redrawn),
                           !.fx.released = @ \o cl.released,
                           !.fx.detached = @ \o cl.detached]
        ELSE LET t == label.textSprite # NullObj
                 retexted ==
                     [label EXCEPT
                        !.text = newText,
                        !.options = mergedOptions,
                        !.textSprite = [createTextSprite(newText, mergedOptions)
                                            EXCEPT !.position = label.currentAppliedOffset]]
             IN  [s EXCEPT !.labels = MapSet(@, id, retexted),
                           !.fx.released = @ \o (IF t THEN << <<h, "textSprite.material.map">>,
                                                             <<h, "textSprite.material">> >>
                                                 ELSE <<>>),
                           !.fx.detached = @ \o (IF t THEN <<<<h, "textSprite">>>> ELSE <<>>)]

\* Mutant: the start point is always computed for the intended side
updateConnectorStartPoint_intendedSide(label, target, flip) ==
    IF label.connector = NullObj \/ ~label.options.showConnector THEN label.connector
    ELSE [label.connector EXCEPT
            !.start = calculateConnectorStartPoint(target, label.options), !.end = Zero3]

\* updateConnectorStartPoint(label, targetVisualOffset, needsFlip): the connector after it
updateConnectorStartPoint(label, target, flip) ==
    IF label.connector = NullObj \/ ~label.options.showConnector THEN label.connector
    ELSE LET originalPosition == label.options.connectorPosition
             options ==
                 IF flip
                 THEN Spread(label.options,
                             [connectorPosition |->
                                 IF originalPosition = "left" THEN "right"
                                 ELSE IF originalPosition = "right" THEN "left"
                                 ELSE originalPosition])
                 ELSE label.options
             newStartPoint == calculateConnectorStartPoint(target, options)
         IN  [label.connector EXCEPT !.start = newStartPoint, !.end = Zero3]

FlipZ == 2
LayerZ == 1

\* Mutant: a changed offset moves the box and the text and leaves the connector
updateLabel_staleConnector(label, cam) ==
    LET flip == needsFlip(label.options, cam)
        target == targetVisualOffset(label.options, cam)
        write == label.currentAppliedOffset # target
        l3 == IF write
              THEN [label EXCEPT
                      !.background = IF @ = NullObj THEN @ ELSE [@ EXCEPT !.position = target],
                      !.textSprite = IF @ = NullObj THEN @ ELSE [@ EXCEPT !.position = target],
                      !.currentAppliedOffset = target]
              ELSE label
        zBase == IF flip THEN FlipZ ELSE 0
        l4 == IF l3.background # NullObj
              THEN [l3 EXCEPT
                      !.connector = IF @ = NullObj THEN @ ELSE [@ EXCEPT !.z = zBase - LayerZ],
                      !.background.position[3] = zBase,
                      !.textSprite = IF @ = NullObj THEN @
                                     ELSE [@ EXCEPT !.position[3] = zBase + LayerZ]]
              ELSE l3
        finalContainerVisible == label.options.visible
        finalConnectorVisible == label.options.showConnector /\ label.options.visible
    IN  [l4 EXCEPT
           !.container.quaternion = cam.quaternion,
           !.container.visible = finalContainerVisible,
           !.connector = IF @ = NullObj THEN @ ELSE [@ EXCEPT !.visible = finalConnectorVisible]]

\* Mutant: the computed offset is compared with the intended offset, not with the
\* applied one
updateLabel_comparesIntended(label, cam) ==
    LET flip == needsFlip(label.options, cam)
        target == targetVisualOffset(label.options, cam)
        write == label.options.calculatedVisualOffset # target
        l3 == IF write
              THEN [label EXCEPT
                      !.background = IF @ = NullObj THEN @ ELSE [@ EXCEPT !.position = target],
                      !.textSprite = IF @ = NullObj THEN @ ELSE [@ EXCEPT !.position = target],
                      !.connector = updateConnectorStartPoint(label, target, flip),
                      !.currentAppliedOffset = target]
              ELSE label
        zBase == IF flip THEN FlipZ ELSE 0
        l4 == IF l3.background # NullObj
              THEN [l3 EXCEPT
                      !.connector = IF @ = NullObj THEN @ ELSE [@ EXCEPT !.z = zBase - LayerZ],
                      !.background.position[3] = zBase,
                      !.textSprite = IF @ = NullObj THEN @
                                     ELSE [@ EXCEPT !.position[3] = zBase + LayerZ]]
              ELSE l3
        finalContainerVisible == label.options.visible
        finalConnectorVisible == label.options.showConnector /\ label.options.visible
    IN  [l4 EXCEPT
           !.container.quaternion = cam.quaternion,
           !.container.visible = finalContainerVisible,
           !.connector = IF @ = NullObj THEN @ ELSE [@ EXCEPT !.visible = finalConnectorVisible]]

\* Mutant: the depth layers are set only in a frame that writes the offset
updateLabel_layersOnWrite(label, cam) ==
    LET flip == needsFlip(label.options, cam)
        target == targetVisualOffset(label.options, cam)
        write == label.currentAppliedOffset # target
        l3 == IF write
              THEN [label EXCEPT
                      !.background = IF @ = NullObj THEN @ ELSE [@ EXCEPT !.position = target],
                      !.textSprite = IF @ = NullObj THEN @ ELSE [@ EXCEPT !.position = target],
                      !.connector = updateConnectorStartPoint(label, target, flip),
                      !.currentAppliedOffset = target]
              ELSE label
        zBase == IF flip THEN FlipZ ELSE 0
        l4 == IF write /\ l3.background # NullObj
              THEN [l3 EXCEPT
                      !.connector = IF @ = NullObj THEN @ ELSE [@ EXCEPT !.z = zBase - LayerZ],
                      !.background.position[3] = zBase,
                      !.textSprite = IF @ = NullObj THEN @
                                     ELSE [@ EXCEPT !.position[3] = zBase + LayerZ]]
              ELSE l3
        finalContainerVisible == label.options.visible
        finalConnectorVisible == label.options.showConnector /\ label.options.visible
    IN  [l4 EXCEPT
           !.container.quaternion = cam.quaternion,
           !.container.visible = finalContainerVisible,
           !.connector = IF @ = NullObj THEN @ ELSE [@ EXCEPT !.visible = finalConnectorVisible]]

\* The body of the labels.forEach of update(), for one label
updateLabel(label, cam) ==
    LET flip == needsFlip(label.options, cam)
        target == targetVisualOffset(label.options, cam)
        write == label.currentAppliedOffset # target
        \* 3. apply the offset if it changed
        l3 == IF write
              THEN [label EXCEPT
                      !.background = IF @ = NullObj THEN @ ELSE [@ EXCEPT !.position = target],
                      !.textSprite = IF @ = NullObj THEN @ ELSE [@ EXCEPT !.position = target],
                      !.connector = updateConnectorStartPoint(label, target, flip),
                      !.currentAppliedOffset = target]
              ELSE label
        zBase == IF flip THEN FlipZ ELSE 0
        \* 4. depth layers
        l4 == IF l3.background # NullObj
              THEN [l3 EXCEPT
                      !.connector = IF @ = NullObj THEN @ ELSE [@ EXCEPT !.z = zBase - LayerZ],
                      !.background.position[3] = zBase,
                      !.textSprite = IF @ = NullObj THEN @
                                     ELSE [@ EXCEPT !.position[3] = zBase + LayerZ]]
              ELSE l3
        finalContainerVisible == label.options.visible
        finalConnectorVisible == label.options.showConnector /\ label.options.visible
    IN  [l4 EXCEPT
           !.container.quaternion = cam.quaternion,
           !.container.visible = finalContainerVisible,
           !.connector = IF @ = NullObj THEN @ ELSE [@ EXCEPT !.visible = finalConnectorVisible]]

\* update() after its guard: the labels.forEach
updateAll(s) ==
    [s EXCEPT
       !.labels = [i \in 1..Len(s.labels) |->
                      [s.labels[i] EXCEPT !.label = updateLabel(@, s.camera)]],
       !.fx.frames = [i \in 1..Len(s.labels) |->
                         [ id |-> s.labels[i].id,
                           needsFlip |-> needsFlip(s.labels[i].label.options, s.camera),
                           wrote |-> s.labels[i].label.currentAppliedOffset
                                     # targetVisualOffset(s.labels[i].label.options, s.camera) ]]]

\* Mutant: the guard is gone, and reading this.camera.quaternion of no camera throws
update_noGuard(s) ==
    IF s.camera = NullObj THEN Throw(s) ELSE updateAll(s)

update(s) ==
    IF s.camera = NullObj \/ Len(s.labels) = 0 THEN s ELSE updateAll(s)

\* Mutant: the labels are updated before the viewer's own update has run
viewerUpdate_labelsFirst(s, args, cam) ==
    LET s1 == [update(s) EXCEPT !.fx.calls = Append(@, <<"update">>)]
    IN  [s1 EXCEPT !.fx.calls = Append(@, <<"originalUpdate", args>>),
                   !.camera = IF @ = NullObj THEN @ ELSE cam]

\* The function setupViewerIntegration puts in viewer.update.  The viewer's original
\* update is the host's: it is handed args and leaves the shared camera at cam.
viewerUpdate(s, args, cam) ==
    LET s1 == [s EXCEPT !.fx.calls = Append(@, <<"originalUpdate", args>>),
                        !.camera = IF @ = NullObj THEN @ ELSE cam]
    IN  [update(s1) EXCEPT !.fx.calls = Append(@, <<"update">>)]

-----------------------------------------------------------------------------
(* Edit mode, selection and the modal *)

SetBackground(ls, id, color, opacity) ==
    LET label == Get(ls, id)
    IN  MapSet(ls, id, [label EXCEPT !.background.color = color, !.background.opacity = opacity])

deselectLabel(s, keepSavedColor) ==
    IF s.selectedLabelId = NoId THEN s
    ELSE
    LET id == s.selectedLabelId
        ls == IF Has(s.labels, id) /\ Get(s.labels, id).background # NullObj
              THEN LET label == Get(s.labels, id)
                   IN  IF ~s.editMode
                       THEN MapSet(s.labels, id,
                                [label EXCEPT
                                   !.background.color = colorSet(@, colorToHex(label.options.backgroundColor)),
                                   !.background.opacity = label.options.opacity,
                                   !.original = NullObj])
                       ELSE IF ~keepSavedColor /\ label.original # NullObj
                            THEN SetBackground(s.labels, id, EditModeColor, EditModeOpacity)
                            ELSE s.labels
              ELSE s.labels
    IN  [s EXCEPT !.labels = ls, !.selectedLabelId = NoId]

selectLabel(s, id) ==
    IF ~s.editMode THEN s
    ELSE
    LET s1 == deselectLabel(s, FALSE)
        ls == IF Has(s1.labels, id) /\ Get(s1.labels, id).background # NullObj
              THEN LET label == Get(s1.labels, id)
                       kept == IF label.original = NullObj
                               THEN [label EXCEPT !.original =
                                        [ color |-> label.background.color,
                                          opacity |-> label.background.opacity ]]
                               ELSE label
                   IN  MapSet(s1.labels, id,
                           [kept EXCEPT !.background.color = SelectedColor,
                                        !.background.opacity = SelectedOpacity])
              ELSE s1.labels
    IN  [s1 EXCEPT !.labels = ls, !.selectedLabelId = id]

\* The modal's inputs as createEditUI leaves them: empty text and number inputs (a
\* number input holds the number its string parses to, 0 for the empty string: the
\* readers write parseFloat(value) || default, which treats NaN and 0 alike), color
\* inputs at "#000000", the checkbox checked, the select at its first option
EmptyForm ==
    [ text |-> "", backgroundColor |-> "#000000", textColor |-> "#000000",
      width |-> 0, height |-> 0, showConnector |-> TRUE, connectorPosition |-> "bottom",
      connectorWidth |-> 0, connectorLength |-> 0, connectorColor |-> "#000000",
      anchor |-> Zero3 ]

\* The value an <input type="color"> holds after value = v: v when it is a simple
\* color ("#" and six hex digits), "#000000" otherwise
colorInputValue(v) == IF v \in HashStrings \ {"#12"} THEN v ELSE "#000000"

\* The value the <select id="connector-position"> holds after value = v
selectValue(v) == IF v \in {"bottom", "top", "left", "right"} THEN v ELSE ""

\* x.toFixed(2), read back as a number: the nearest multiple of 0.01 (2 units), the
\* one farther from zero when x is half way
toFixed2(x) == IF x >= 0 THEN 2 * ((x + 1) \div 2) ELSE -(2 * ((1 - x) \div 2))

\* a || b for numbers: b when a is 0 (or NaN)
OrElse(a, b) == IF a = 0 THEN b ELSE a

showEditUI(s, labelId) ==
    LET s1 == [s EXCEPT !.selectedLabelId = labelId]
        isCreating == labelId = NoId
        p == s.pendingCursorPosition
        created ==
            [ text |-> "New Label", backgroundColor |-> colorInputValue("#333333"),
              textColor |-> colorInputValue("#ffffff"), width |-> 300, height |-> 80,
              showConnector |-> TRUE, connectorPosition |-> selectValue("top"),
              connectorWidth |-> 2, connectorLength |-> 100,
              connectorColor |-> colorInputValue("#ffffff"),
              anchor |-> IF p = NoVec THEN Zero3
                         ELSE <<toFixed2(p[1]), toFixed2(p[2]), toFixed2(p[3])>> ]
    IN  IF s.editUI = NullObj THEN Throw(s1)     \* the form elements are gone from the document
        ELSE IF ~isCreating /\ ~Has(s.labels, labelId) THEN s1
        ELSE LET shown ==
                     IF isCreating THEN created
                     ELSE LET label == Get(s.labels, labelId)
                              options == label.options
                              currentTargetPos == options.connectorTarget
                          IN  [ text |-> label.text,
                                backgroundColor |->
                                    colorInputValue(colorToHex(options.backgroundColor)),
                                textColor |-> colorInputValue(colorToHex(options.textColor)),
                                width |-> OrElse(options.width, 300),
                                height |-> OrElse(options.height, 80),
                                showConnector |-> options.showConnector # FALSE,
                                connectorPosition |-> selectValue(options.connectorPosition),
                                connectorWidth |-> OrElse(options.connectorWidth, 2),
                                connectorLength |-> OrElse(options.connectorLength, 100),
                                connectorColor |->
                                    colorInputValue(colorToHex(options.connectorColor)),
                                anchor |-> << toFixed2(currentTargetPos[1]),
                                              toFixed2(currentTargetPos[2]),
                                              toFixed2(currentTargetPos[3]) >> ]
             IN  [s1 EXCEPT !.form = shown,
                            !.editUI.display = "block",
                            !.fx.modalOpen = IF callbacks.onModalOpen THEN @ + 1 ELSE @]

hideEditUI(s, calledAfterSave) ==
    IF s.editUI = NullObj THEN Throw(s)          \* this.editUI.style of null
    ELSE IF s.editUI.display # "none"
    THEN LET s1 == deselectLabel([s EXCEPT !.editUI.display = "none"], calledAfterSave)
         IN  [s1 EXCEPT !.fx.modalClose = IF callbacks.onModalClose THEN @ + 1 ELSE @]
    ELSE s

\* The labels.forEach of toggleEditMode(), for one label; on is the new this.editMode
toggleLabel(label, on) ==
    IF label.background = NullObj THEN label
    ELSE IF on
    THEN [label EXCEPT
            !.original = IF @ = NullObj
                         THEN [ color |-> colorToHex(label.options.backgroundColor),
                                opacity |-> label.options.opacity ]
                         ELSE @,
            !.background.color = EditModeColor,
            !.background.opacity = EditModeOpacity]
    ELSE [label EXCEPT
            !.background.color = colorSet(@, colorToHex(label.options.backgroundColor)),
            !.background.opacity = label.options.opacity,
            !.original = NullObj]

toggleEditMode(s) ==
    LET on == ~s.editMode
        s1 == [s EXCEPT
                 !.editMode = on,
                 !.labels = [i \in 1..Len(s.labels) |->
                                [s.labels[i] EXCEPT !.label = toggleLabel(@, on)]]]
    IN  IF ~on THEN hideEditUI(deselectLabel(s1, FALSE), FALSE) ELSE s1

\* Mutant: the click handler does not look at this.editMode
clickHandlerFn_ignoresEditMode(s, hit) ==
    IF hit # NoId THEN showEditUI(selectLabel(s, hit), hit)
    ELSE hideEditUI(deselectLabel(s, FALSE), FALSE)

\* this.clickHandler: hit is the id of the label whose background the ray meets first,
\* NoId when it meets none
clickHandlerFn(s, hit) ==
    IF ~s.editMode THEN s
    ELSE IF hit # NoId THEN showEditUI(selectLabel(s, hit), hit)
    ELSE hideEditUI(deselectLabel(s, FALSE), FALSE)

CursorMinY == 20

createLabelAtCursor(s, showMeshCursor, cursor) ==
    IF ~s.editMode \/ ~showMeshCursor THEN s
    ELSE LET p == IF cursor[2] < CursorMinY THEN <<cursor[1], CursorMinY, cursor[3]>> ELSE cursor
             s1 == deselectLabel([s EXCEPT !.pendingCursorPosition = p], FALSE)
         IN  showEditUI(s1, NoId)

\* The click handler of the Delete button
deleteClicked(s) ==
    IF s.selectedLabelId # NoId
    THEN hideEditUI(removeLabel(s, s.selectedLabelId, TRUE), FALSE)
    ELSE s

\* What saveEditUIData does to the label it finds under this.selectedLabelId
saveExisting(s, id, text, currentOptions, newAnchorPos) ==
    LET label == Get(s.labels, id)
        oldOptions == label.options
        \* the form has no opacity and no font: undefined !== the stored value
        appearanceChanged ==
            \E k \in AppearanceKeys :
                IF k \in DOMAIN currentOptions THEN currentOptions[k] # oldOptions[k]
                ELSE k \in DOMAIN oldOptions
        textChanged == text # label.text
        currentPos == label.options.connectorTarget
        anchorChanged == currentPos # newAnchorPos
        moved == IF anchorChanged
                 THEN [s EXCEPT !.labels = MapSet(@, id,
                          [label EXCEPT !.container.position = newAnchorPos])]
                 ELSE s
        options == Spread(currentOptions,
                          [connectorTarget |-> IF anchorChanged THEN newAnchorPos
                                               ELSE label.options.connectorTarget])
        s1 == updateLabelText(moved, id, text, options, appearanceChanged \/ textChanged)
    IN  [s1 EXCEPT !.labels = MapSet(@, id, [Get(s1.labels, id) EXCEPT !.original = NullObj])]

\* saveEditUIData(): the click handler of the Save button.  newId is the id
\* `label-${Date.now()}` of a label it creates.
saveEditUIData(s, newId) ==
    LET text == s.form.text
        currentOptions ==
            [ backgroundColor |-> s.form.backgroundColor,
              textColor |-> s.form.textColor,
              width |-> OrElse(s.form.width, 300),
              height |-> OrElse(s.form.height, 80),
              showConnector |-> s.form.showConnector,
              connectorPosition |-> s.form.connectorPosition,
              connectorWidth |-> OrElse(s.form.connectorWidth, 2),
              connectorLength |-> OrElse(s.form.connectorLength, 100),
              connectorColor |-> s.form.connectorColor ]
        newAnchorPos == s.form.anchor
        existing == s.selectedLabelId # NoId /\ Has(s.labels, s.selectedLabelId)
        s1 == IF s.selectedLabelId # NoId
              THEN IF existing
                   THEN saveExisting(s, s.selectedLabelId, text, currentOptions, newAnchorPos)
                   ELSE s
              ELSE IF s.pendingCursorPosition # NoVec
              THEN LET a == addLabel(s, newId, newAnchorPos, text,
                                     Spread(currentOptions, [connectorTarget |-> newAnchorPos]))
                   IN  IF a.fx.threw THEN a ELSE [a EXCEPT !.pendingCursorPosition = NoVec]
              ELSE s
        changed == existing
    IN  IF s1.fx.threw THEN s1
        ELSE hideEditUI(IF s.selectedLabelId # NoId /\ changed THEN notifyUpdate(s1) ELSE s1,
                        TRUE)

\* dispose(), up to and including clearAllLabels(false); the action sets the rest
disposeLabels(s) ==
    LET s1 == hideEditUI(s, FALSE)
    IN  IF s1.fx.threw THEN s1
        ELSE clearAllLabels([s1 EXCEPT !.editUI = NullObj], FALSE)

-----------------------------------------------------------------------------
(* The state machine *)

Init ==
    /\ labels = <<>>
    /\ groupChildren = {}
    /\ labelsGroup = [visible |-> TRUE, inScene |-> TRUE]
    /\ camera \in Cameras \cup {NullObj}
    /\ editMode = FALSE
    /\ selectedLabelId = NoId
    /\ editUI = [display |-> "none"]
    /\ pendingCursorPosition = NoVec
    /\ clickHandler = TRUE
    /\ callbacks = [onLabelsUpdate |-> TRUE, onModalOpen |-> TRUE, onModalClose |-> TRUE]
    /\ form = EmptyForm
    /\ presetsBar = NullObj
    /\ fx = NoFx("constructor", NoId)

Commit(t) ==
    /\ labels' = t.labels
    /\ groupChildren' = t.groupChildren
    /\ editMode' = t.editMode
    /\ selectedLabelId' = t.selectedLabelId
    /\ editUI' = t.editUI
    /\ pendingCursorPosition' = t.pendingCursorPosition
    /\ camera' = t.camera
    /\ form' = t.form
    /\ fx' = t.fx
    /\ UNCHANGED <<labelsGroup, clickHandler, callbacks, presetsBar>>

AddLabel(id, position, text, options) ==
    Commit(addLabel(BeginWith("addLabel", id, options), id, position, text, options))

AddLabels(labelsData, notify) ==
    Commit(addLabels(Begin("addLabels", NoId), labelsData, notify))

RemoveLabel(id) ==
    Commit(removeLabel(Begin("removeLabel", id), id, TRUE))

ClearAllLabels ==
    Commit(clearAllLabels(Begin("clearAllLabels", NoId), TRUE))

UpdateLabelText(id, newText, newOptions) ==
    Commit(updateLabelText(BeginWith("updateLabelText", id, newOptions), id, newText,
                           newOptions, FALSE))

\* updateLabelText with its fourth argument, as saveEditUIData calls it
UpdateLabelTextForced(id, newText, newOptions, forceFullRedraw) ==
    Commit(updateLabelText(BeginWith("updateLabelText", id, newOptions), id, newText,
                           newOptions, forceFullRedraw))

UpdateLabelPosition(id, newPosition) ==
    Commit(updateLabelPosition(Begin("updateLabelPosition", id), id, newPosition))

SetLabelVisibility(id, visible) ==
    Commit(setLabelVisibility(Begin("setLabelVisibility", id), id, visible))

Update ==
    Commit(update(Begin("update", NoId)))

ToggleEditMode ==
    Commit(toggleEditMode(Begin("toggleEditMode", NoId)))

SelectLabel(id) ==
    Commit(selectLabel(Begin("selectLabel", id), id))

CanvasClick(hit) ==
    /\ clickHandler
    /\ hit = NoId \/ (Has(labels, hit) /\ Get(labels, hit).background # NullObj)
    /\ Commit(clickHandlerFn(Begin("click", hit), hit))

CreateLabelAtCursor(showMeshCursor, cursor) ==
    Commit(createLabelAtCursor(Begin("createLabelAtCursor", NoId), showMeshCursor, cursor))

CancelClicked ==
    /\ editUI # NullObj /\ editUI.display # "none"
    /\ Commit(hideEditUI(Begin("cancel", NoId), FALSE))

DeleteClicked ==
    /\ editUI # NullObj /\ editUI.display # "none"
    /\ Commit(deleteClicked(Begin("delete", selectedLabelId)))

\* The user changes inputs of the open modal
TypeInForm(patch) ==
    /\ editUI # NullObj /\ editUI.display # "none"
    /\ form' = Spread(form, patch)
    /\ form' # form
    /\ fx' = NoFx("type", NoId)
    /\ UNCHANGED <<labels, groupChildren, labelsGroup, camera, editMode, selectedLabelId,
                   editUI, pendingCursorPosition, clickHandler, callbacks, presetsBar>>

SaveClicked(newId) ==
    /\ editUI # NullObj /\ editUI.display # "none"
    /\ selectedLabelId = NoId => ~Has(labels, newId)     \* Date.now() gives a new id
    /\ Commit(saveEditUIData(Begin("save", selectedLabelId), newId))

\* The host's render loop calls viewer.update(...args)
ViewerUpdate(args, cam) ==
    Commit(viewerUpdate([Begin("viewer.update", NoId) EXCEPT !.fx.args = args], args, cam))

\* The host moves the camera object the widget shares with the viewer
MoveCamera(cam) ==
    /\ camera # NullObj
    /\ camera' = cam
    /\ fx' = NoFx("moveCamera", NoId)
    /\ UNCHANGED <<labels, groupChildren, labelsGroup, editMode, selectedLabelId, editUI,
                   pendingCursorPosition, clickHandler, callbacks, form, presetsBar>>

ShowHide(visible) ==
    /\ IF labelsGroup = NullObj
       THEN fx' = Throw(Begin("show", NoId)).fx /\ UNCHANGED labelsGroup
       ELSE fx' = NoFx("show", NoId) /\ labelsGroup' = [labelsGroup EXCEPT !.visible = visible]
    /\ UNCHANGED <<labels, groupChildren, camera, editMode, selectedLabelId, editUI,
                   pendingCursorPosition, clickHandler, callbacks, form, presetsBar>>

Dispose ==
    LET t == disposeLabels(Begin("dispose", NoId))
    IN  IF t.fx.threw
        THEN Commit(t)
        ELSE /\ labels' = <<>>
             /\ groupChildren' = t.groupChildren
             /\ editMode' = t.editMode
             /\ selectedLabelId' = t.selectedLabelId
             /\ editUI' = t.editUI
             /\ pendingCursorPosition' = t.pendingCursorPosition
             /\ form' = t.form
             /\ clickHandler' = FALSE
             /\ labelsGroup' = NullObj
             /\ fx' = IF labelsGroup # NullObj /\ labelsGroup.inScene
                      THEN [t.fx EXCEPT !.detached = Append(@, <<0, "labelsGroup">>)]
                      ELSE t.fx
             /\ camera' = NullObj
             /\ callbacks' = [onLabelsUpdate |-> FALSE, onModalOpen |-> FALSE,
                              onModalClose |-> FALSE]
             /\ UNCHANGED presetsBar

\* The inputs of the lifecycle specification: two labels, with and without a
\* connector, one of them edited by the host, one camera pose or no camera
LifeOptions == {NoOptions, [showConnector |-> FALSE]}
EditedId == "a"
LifeCamera == [position |-> <<0, 0, 1000>>, quaternion |-> "front"]

Next ==
    \/ \E id \in Ids, o \in LifeOptions : AddLabel(id, Zero3, "A", o)
    \/ \E id \in Ids : RemoveLabel(id)
    \/ ClearAllLabels
    \/ \E o \in LifeOptions : UpdateLabelText(EditedId, "B", o)
    \/ Update
    \/ ToggleEditMode
    \/ \E hit \in Ids \cup {NoId} : CanvasClick(hit)
    \/ \E m \in BOOLEAN : CreateLabelAtCursor(m, Zero3)
    \/ CancelClicked
    \/ DeleteClicked
    \/ Dispose

\* The viewer hands the constructor its camera, or none
InitLife == Init /\ camera \in {LifeCamera, NullObj}

Spec == InitLife /\ [][Next]_vars

\* The inputs of the geometry specification: one label, every side, sizes and offsets,
\* and the camera all around it
GeomId == "a"
GeomAddOptions == OptionPatches
GeomEditOptions ==
    { NoOptions,
      [connectorPosition |-> "left"],
      [connectorPosition |-> "right", width |-> 200],
      [offset |-> <<40, 20, 0>>] }

NextGeom ==
    \/ \E p \in Anchors, o \in GeomAddOptions : AddLabel(GeomId, p, "A", o)
    \/ RemoveLabel(GeomId)
    \/ \E o \in GeomEditOptions, f \in BOOLEAN : UpdateLabelTextForced(GeomId, "A", o, f)
    \/ \E p \in Anchors : UpdateLabelPosition(GeomId, p)
    \/ Update
    \/ \E cam \in Cameras : MoveCamera(cam)

InitGeom == Init /\ camera \in Cameras

SpecGeom == InitGeom /\ [][NextGeom]_vars

\* The inputs of the modal specification: a label the host adds, a label the modal
\* creates at the mesh cursor, and edits typed into the modal
HostId == "a"
CreatedId == "c"
EditAddOptions == {NoOptions}
FormPatches == {[text |-> "B"], [anchor |-> <<300, 0, 0>>]}
EditCamera == [position |-> <<0, 0, 1000>>, quaternion |-> "front"]
Cursor == <<1, 0, 0>>

NextEdit ==
    \/ \E o \in EditAddOptions : AddLabel(HostId, Zero3, "A", o)
    \/ RemoveLabel(HostId)
    \/ ToggleEditMode
    \/ \E hit \in {HostId, CreatedId, NoId} : CanvasClick(hit)
    \/ CreateLabelAtCursor(TRUE, Cursor)
    \/ \E patch \in FormPatches : TypeInForm(patch)
    \/ SaveClicked(CreatedId)
    \/ CancelClicked
    \/ DeleteClicked

InitEdit == Init /\ camera = EditCamera

SpecEdit == InitEdit /\ [][NextEdit]_vars

\* The inputs of the frame specification: a label with a malformed color, a
\* padding that is no number, or hidden; the host's render loop, the visibility
\* switches, and the modal saved as it opened
LookAddOptions ==
    { NoOptions,
      [backgroundColor |-> "#12", connectorPosition |-> "left"],
      [padding |-> NotNumeric],
      [visible |-> FALSE] }
LookCameras ==
    { [position |-> <<0, 0, 1000>>, quaternion |-> "front"],
      [position |-> <<0, 0, -1000>>, quaternion |-> "back"] }
ViewerArgs == {<<"renderer", "camera">>}

NextLook ==
    \/ \E o \in LookAddOptions : AddLabel(HostId, Zero3, "A", o)
    \/ RemoveLabel(HostId)
    \/ \E v \in BOOLEAN : SetLabelVisibility(HostId, v)
    \/ UpdateLabelPosition(HostId, <<300, 0, 0>>)
    \/ Update
    \/ \E args \in ViewerArgs, cam \in LookCameras : ViewerUpdate(args, cam)
    \/ \E v \in BOOLEAN : ShowHide(v)
    \/ ToggleEditMode
    \/ CanvasClick(HostId)
    \/ SaveClicked(CreatedId)

InitLook == Init /\ camera \in LookCameras

SpecLook == InitLook /\ [][NextLook]_vars

\* The inputs of the collection specification: the host's calls that add, replace,
\* move and remove labels, next to the user's clicks on the canvas and in the modal
Moved == <<300, 0, 0>>
LabelData(id, position) == [id |-> id, position |-> position, text |-> "A", options |-> NoOptions]
\* What the host passes to addLabels: no array, or an array that has one id twice
AddLabelsArgs ==
    { <<[isArray |-> FALSE, items |-> <<>>], TRUE>>,
      <<[isArray |-> TRUE, items |-> <<LabelData(HostId, Moved), LabelData(HostId, Zero3)>>],
        FALSE>> }
\* The options the host passes to updateLabelText: none, or the options of a label as
\* onLabelsUpdate handed them out, which hold its connectorTarget
EditTextOptions == {NoOptions, [connectorTarget |-> Zero3]}

NextColl ==
    \/ AddLabel(HostId, Zero3, "A", NoOptions)
    \/ \E a \in AddLabelsArgs : AddLabels(a[1], a[2])
    \/ RemoveLabel(HostId)
    \/ ClearAllLabels
    \/ \E o \in EditTextOptions : UpdateLabelText(HostId, "A", o)
    \/ UpdateLabelPosition(HostId, Moved)
    \/ SelectLabel(HostId)
    \/ ToggleEditMode
    \/ \E hit \in {HostId, CreatedId, NoId} : CanvasClick(hit)
    \/ CreateLabelAtCursor(TRUE, Cursor)
    \/ SaveClicked(CreatedId)
    \/ CancelClicked
    \/ DeleteClicked

SpecColl == InitEdit /\ [][NextColl]_vars

-----------------------------------------------------------------------------
(* Properties of the collection: removeLabel, dispose, update without work *)

Range(q) == {q[i] : i \in 1..Len(q)}
Count(q, x) == Cardinality({i \in 1..Len(q) : q[i] = x})

\* The elements a label object holds, and what cleanup must dispose of each
ElementsOf(label) ==
    (IF label.textSprite # NullObj THEN {"textSprite"} ELSE {})
    \cup (IF label.background # NullObj THEN {"background"} ELSE {})
    \cup (IF label.connector # NullObj THEN {"connector"} ELSE {})
PartsOf(label) ==
    (IF label.textSprite # NullObj
     THEN {"textSprite.material.map", "textSprite.material"} ELSE {})
    \cup (IF label.background # NullObj
          THEN {"background.material", "background.geometry"} ELSE {})
    \cup (IF label.connector # NullObj
          THEN {"connector.material", "connector.geometry"} ELSE {})

\* The label as it was before the step is fully released by the step
ReleasedByStep(label, after) ==
    LET h == label.container.handle
    IN  /\ \A part \in PartsOf(label) : Count(after.released, <<h, part>>) = 1
        /\ \A e \in ElementsOf(label) : Count(after.detached, <<h, e>>) = 1
        /\ Count(after.detached, <<h, "container">>) = 1

\* C1: removeLabel(id) on an id in the collection takes the id out of the collection,
\* detaches the label's container from the labels group, disposes of the label's text
\* sprite, background and connector and sets the three to null, and changes no other
\* label of the collection.
C1_RemoveLabelReleases ==
    [][ (fx'.op = "removeLabel" /\ Has(labels, fx'.id)) =>
          LET id == fx'.id
              before == Get(labels, id)
              h == before.container.handle
          IN  /\ KeysOf(labels') = KeysOf(labels) \ {id}
              /\ h \in groupChildren /\ groupChildren' = groupChildren \ {h}
              /\ ReleasedByStep(before, fx')
              /\ Len(fx'.removed) = 1
              /\ fx'.removed[1].id = id
              /\ fx'.removed[1].label.textSprite = NullObj
              /\ fx'.removed[1].label.background = NullObj
              /\ fx'.removed[1].label.connector = NullObj
              /\ \A other \in KeysOf(labels) \ {id} : Get(labels', other) = Get(labels, other)
      ]_vars

\* C1 witness: a label with a connector was removed while another label stayed
C1_Witness ==
    /\ fx.op = "removeLabel"
    /\ Len(fx.removed) = 1
    /\ \E h \in 1..2 : <<h, "connector.geometry">> \in Range(fx.released)
    /\ Len(labels) = 1

\* C2: removeLabel(id) on an id that is not in the collection (a second removal)
\* leaves the collection, the labels group and the selection as they are, releases
\* nothing and does not call onLabelsUpdate.
C2_RemoveLabelIdempotent ==
    [][ (fx'.op = "removeLabel" /\ ~Has(labels, fx'.id)) =>
          /\ labels' = labels
          /\ groupChildren' = groupChildren
          /\ labelsGroup' = labelsGroup
          /\ selectedLabelId' = selectedLabelId
          /\ fx'.released = <<>>
          /\ fx'.detached = <<>>
          /\ fx'.notified = <<>>
      ]_vars

\* C2 witness: removeLabel ran on an id that is not in the collection, which holds
\* another label, with the host callback registered
C2_Witness ==
    /\ fx.op = "removeLabel"
    /\ fx.removed = <<>>
    /\ ~Has(labels, fx.id)
    /\ Len(labels) = 1
    /\ callbacks.onLabelsUpdate

\* C3: when dispose() returns, the collection is empty, every label that was in it has
\* had its text sprite and texture, its background and its connector disposed of and
\* detached, the labels group is out of the scene, and onLabelsUpdate was not called.
C3_DisposeReleasesAll ==
    [][ (fx'.op = "dispose" /\ ~fx'.threw) =>
          /\ labels' = <<>>
          /\ groupChildren' = {}
          /\ \A i \in 1..Len(labels) : ReleasedByStep(labels[i].label, fx')
          /\ labelsGroup' = NullObj
          /\ Count(fx'.detached, <<0, "labelsGroup">>) = 1
          /\ fx'.notified = <<>>
      ]_vars

\* C3 witness: dispose() returned after releasing two labels, one of them selected in
\* the open modal
C3_Witness ==
    /\ fx.op = "dispose"
    /\ ~fx.threw
    /\ Len(fx.removed) = 2
    /\ fx.modalClose = 1

\* C10: update() with no camera or with an empty collection changes no label, no
\* container, neither the selection nor the modal, calls no callback and throws nothing.
C10_UpdateNoOp ==
    [][ (fx'.op = "update" /\ (camera = NullObj \/ Len(labels) = 0)) =>
          /\ labels' = labels
          /\ groupChildren' = groupChildren
          /\ selectedLabelId' = selectedLabelId
          /\ editUI' = editUI
          /\ editMode' = editMode
          /\ fx' = NoFx("update", NoId)
      ]_vars

\* C10 witness: update() ran without a camera
C10_Witness ==
    /\ fx.op = "update"
    /\ camera = NullObj
    /\ labels = <<>>

-----------------------------------------------------------------------------
(* Properties of the placement geometry *)

LabelAt(i) == labels[i].label
Abs(n) == IF n < 0 THEN -n ELSE n
Sign(n) == IF n < 0 THEN -1 ELSE IF n > 0 THEN 1 ELSE 0
ExplicitOffset(o) == IF HasOffset(o) THEN o.offset ELSE Zero3
WithSide(o, side) == [o EXCEPT !.connectorPosition = side]
Opposite(side) == CASE side = "left" -> "right" [] side = "right" -> "left" [] OTHER -> side

\* C4, as stated: for every label with the connector shown on "top", whatever its other
\* options, the y of the offset calculateVisualOffset computed is half the box height
\* plus the connector length.
C4_TopOffsetAsStated ==
    \A i \in 1..Len(labels) :
        LET o == LabelAt(i).options
        IN  (o.showConnector /\ o.connectorPosition = "top") =>
                o.calculatedVisualOffset[2] = o.height \div 2 + o.connectorLength

\* C4, amended: for every label with the connector shown on "top", the y of the offset
\* calculateVisualOffset computed is half the box height plus the connector length plus
\* the y of the explicit offset option, when the options hold one.
C4_TopOffset ==
    \A i \in 1..Len(labels) :
        LET o == LabelAt(i).options
        IN  (o.showConnector /\ o.connectorPosition = "top") =>
                o.calculatedVisualOffset[2] =
                    o.height \div 2 + o.connectorLength + ExplicitOffset(o)[2]

\* C4 witness: a label on "top" with a box height other than the default and an
\* explicit offset, after the edit that gave it the offset
C4_Witness ==
    /\ fx.op = "updateLabelText"
    /\ \E i \in 1..Len(labels) :
           /\ LabelAt(i).options.showConnector
           /\ LabelAt(i).options.connectorPosition = "top"
           /\ LabelAt(i).options.height = 40
           /\ HasOffset(LabelAt(i).options)

\* The flip rule of C5, from the sign of the dot product and the intended side
FlipRule(o, cam) ==
    LET dotSign == Sign(Dot(calculateVisualOffset(o), screenRight(cam, o.connectorTarget)))
    IN  /\ o.showConnector
        /\ \/ o.connectorPosition = "left" /\ dotSign = -1
           \/ o.connectorPosition = "right" /\ dotSign = 1

\* C5: in update(), a label is flipped exactly when its connector is shown, its intended
\* side is lateral and (the side is "left" and the dot product of screen-right and the
\* intended offset is negative, or the side is "right" and it is positive): never for
\* "top" or "bottom", never without connector, never on a zero dot product, and whatever
\* the frames before did.  The flip shows in the layer the background is moved to.
C5_FlipDecision ==
    fx.op = "update" /\ Len(labels) > 0 =>
        \A i \in 1..Len(labels) :
            /\ fx.frames[i].needsFlip = FlipRule(LabelAt(i).options, camera)
            /\ LabelAt(i).background.position[3]
                   = (IF FlipRule(LabelAt(i).options, camera) THEN FlipZ ELSE 0)

\* C5 witness: an update() that flipped a label whose intended side is "right"
C5_Witness ==
    /\ fx.op = "update"
    /\ \E i \in 1..Len(labels) :
           /\ fx.frames[i].needsFlip
           /\ LabelAt(i).options.connectorPosition = "right"

\* C6: flipping is an involution: the side a flipped label is drawn on, flipped again,
\* is the intended side, and the offset computed for it is the intended offset the
\* label was created with, whatever the width, the connector length and the explicit
\* offset.
C6_FlipInvolution ==
    fx.op = "update" =>
        \A i \in 1..Len(labels) :
            fx.frames[i].needsFlip =>
                LET o == LabelAt(i).options
                    once == flippedSide(o.connectorPosition)
                    twice == flippedSide(once)
                IN  /\ LabelAt(i).currentAppliedOffset = calculateVisualOffset(WithSide(o, once))
                    /\ once # o.connectorPosition
                    /\ twice = o.connectorPosition
                    /\ calculateVisualOffset(WithSide(o, twice)) = o.calculatedVisualOffset

\* C6 witness: a flipped label of width 200 with an explicit offset
C6_Witness ==
    /\ fx.op = "update"
    /\ \E i \in 1..Len(labels) :
           /\ fx.frames[i].needsFlip
           /\ LabelAt(i).options.width = 200
           /\ HasOffset(LabelAt(i).options)

SideAxis(o) == IF o.connectorPosition \in {"left", "right"} THEN 1 ELSE 2
HalfBox(o) == IF SideAxis(o) = 1 THEN <<o.width \div 2, 0, 0>> ELSE <<0, o.height \div 2, 0>>

\* C8, as stated: the connector of every label ends at the anchor and starts at the
\* applied offset moved by half the box size toward the anchor (the edge of the box
\* nearest the anchor); with no explicit offset the start is connectorLength away.
C8_StartNearestAnchor ==
    \A i \in 1..Len(labels) :
        LabelAt(i).connector # NullObj =>
            LET o == LabelAt(i).options
                a == LabelAt(i).currentAppliedOffset
                c == LabelAt(i).connector
            IN  /\ c.end = Zero3
                /\ c.start = VSub(a, VScale(Sign(a[SideAxis(o)]), HalfBox(o)))
                /\ ~HasOffset(o) => Abs(c.start[SideAxis(o)]) = o.connectorLength

\* C8, amended: the connector of every label ends at the anchor and starts at the
\* applied offset moved by half the box size against the direction in which the side
\* places the box, which is the direction of the applied offset without the explicit
\* offset; with no explicit offset that is the edge nearest the anchor, and the start
\* is on the side's axis, connectorLength away from the anchor.
C8_StartFacesAnchor ==
    \A i \in 1..Len(labels) :
        LabelAt(i).connector # NullObj =>
            LET o == LabelAt(i).options
                a == LabelAt(i).currentAppliedOffset
                placed == VSub(a, ExplicitOffset(o))
                c == LabelAt(i).connector
            IN  /\ c.end = Zero3
                /\ c.start = VSub(a, VScale(Sign(placed[SideAxis(o)]), HalfBox(o)))
                /\ ~HasOffset(o) =>
                       /\ Abs(c.start[SideAxis(o)]) = o.connectorLength
                       /\ Dot(c.start, c.start) = o.connectorLength * o.connectorLength
                       /\ Abs(c.start[SideAxis(o)]) < Abs(a[SideAxis(o)])

\* C8 witness: a flipped label on a lateral side, without explicit offset, whose
\* connector was rewritten by update()
C8_Witness ==
    /\ fx.op = "update"
    /\ \E i \in 1..Len(labels) :
           /\ fx.frames[i].needsFlip
           /\ fx.frames[i].wrote
           /\ ~HasOffset(LabelAt(i).options)
           /\ LabelAt(i).connector # NullObj

\* The value of option k in o, as a sequence: empty when o does not name k
Lookup(o, k) == IF k \in DOMAIN o THEN <<o[k]>> ELSE <<>>

\* C9: after updateLabelText on a label of the collection, each option a caller sets
\* has the value newOptions gives it, else the value the label had, else the default;
\* after addLabel, the value the given options give it, else the default.
C9_OptionPrecedence ==
    [][ /\ (fx'.op = "updateLabelText" /\ Has(labels, fx'.id)) =>
            \A k \in UserOptionKeys :
                Lookup(Get(labels', fx'.id).options, k) =
                    IF k \in DOMAIN fx'.options THEN <<fx'.options[k]>>
                    ELSE IF k \in DOMAIN Get(labels, fx'.id).options
                         THEN <<Get(labels, fx'.id).options[k]>>
                         ELSE Lookup(getDefaultLabelOptions, k)
        /\ (fx'.op = "addLabel" /\ ~fx'.threw) =>
            \A k \in UserOptionKeys :
                Lookup(Get(labels', fx'.id).options, k) =
                    IF k \in DOMAIN fx'.options THEN <<fx'.options[k]>>
                    ELSE Lookup(getDefaultLabelOptions, k)
      ]_vars

\* C9 witness: after an edit, a label keeps the length it was added with (not the
\* default), has the side the edit gave it, and the default height
C9_Witness ==
    /\ fx.op = "updateLabelText"
    /\ Has(labels, GeomId)
    /\ Get(labels, GeomId).options.connectorLength = 60
    /\ Get(labels, GeomId).options.connectorPosition = "left"
    /\ Get(labels, GeomId).options.height = 80

-----------------------------------------------------------------------------
(* Properties of the best-effort fallbacks: colors and the text canvas *)

\* The well-formed "#rrggbb" values, and the values that are no color at all
WellFormedHex == HashStrings \ {"#12"}
MalformedColors == {"#12", "notacolor"}

\* C11: colorToHex returns "#333333" for every malformed color and a well-formed
\* "#rrggbb" value for every input.  Stated on the results the code uses: when edit
\* mode is switched off, each background is given colorToHex of its label's
\* backgroundColor option, which is then well-formed, and is "#333333" when the
\* option is malformed.
C11_ColorToHexFallsBack ==
    (fx.op = "toggleEditMode" /\ ~editMode) =>
        \A i \in 1..Len(labels) :
            /\ LabelAt(i).background.color \in WellFormedHex
            /\ LabelAt(i).options.backgroundColor \in MalformedColors =>
                   LabelAt(i).background.color = "#333333"

\* A canvas dimension that is not a positive number
InvalidDimension(v) == v = NaN \/ v <= 0

\* C12: whenever the canvas size computed for a label's text is invalid (width or
\* height not a positive number), the label's text sprite is the visibly marked
\* placeholder (a sprite whose material is a plain color, not the canvas texture),
\* and the label is in the collection all the same.
C12_PlaceholderOnInvalidCanvas ==
    \A i \in 1..Len(labels) :
        LET size == canvasSize(LabelAt(i).text, LabelAt(i).options)
        IN  (LabelAt(i).textSprite # NullObj
             /\ (InvalidDimension(size[1]) \/ InvalidDimension(size[2]))) =>
                "color" \in DOMAIN LabelAt(i).textSprite.material

-----------------------------------------------------------------------------
(* Properties of the frame update and the host callbacks *)

\* C13: every call of viewer.update runs the viewer's original update first, with the
\* caller's arguments, and then the labels' update() exactly once, within the call:
\* the labels it leaves are those update() computes under the camera the original
\* update left.
C13_ViewerUpdateRunsBoth ==
    [][ fx'.op = "viewer.update" =>
            /\ fx'.calls = << <<"originalUpdate", fx'.args>>, <<"update">> >>
            /\ labels' = update([Cur EXCEPT !.camera = camera']).labels
      ]_vars

\* C13 witness: a call of viewer.update whose original update took the camera behind
\* a label on the "left", which the labels' update then flipped
C13_Witness ==
    /\ fx.op = "viewer.update"
    /\ fx.args = <<"renderer", "camera">>
    /\ Len(fx.frames) = 1
    /\ fx.frames[1].needsFlip /\ fx.frames[1].wrote
    /\ camera.quaternion = "back"

\* What the host is told of a collection: one entry per label, with its id, its
\* anchor, its text and its options
LabelsData(ls) ==
    [i \in 1..Len(ls) |->
        [ id |-> ls[i].id, position |-> ls[i].label.container.position,
          text |-> ls[i].label.text, options |-> ls[i].label.options ]]

\* The step called onLabelsUpdate exactly once, with the collection it left
NotifiedOnce == fx'.notified = <<LabelsData(labels')>>

\* The label id has another text, other options or another anchor after the step
LabelChanged(id) ==
    \/ Get(labels', id).text # Get(labels, id).text
    \/ Get(labels', id).options # Get(labels, id).options
    \/ Get(labels', id).container.position # Get(labels, id).container.position

\* C14: every creation of a label (addLabel, or Save in the create modal), every
\* saved edit that changes an existing label and every deletion of an existing label
\* (removeLabel, or Delete in the modal) calls onLabelsUpdate exactly once, after the
\* change, with one entry per label then in the collection.
C14_NotifiesOncePerChange ==
    [][ /\ (fx'.op = "addLabel" /\ ~fx'.threw) =>
              Has(labels', fx'.id) /\ NotifiedOnce
        /\ (fx'.op = "save" /\ fx'.id = NoId /\ ~fx'.threw) =>
              Len(labels') = Len(labels) + 1 /\ NotifiedOnce
        /\ (fx'.op = "save" /\ fx'.id # NoId /\ Has(labels, fx'.id)
               /\ ~fx'.threw /\ LabelChanged(fx'.id)) =>
              NotifiedOnce
        /\ (fx'.op \in {"removeLabel", "delete"} /\ Has(labels, fx'.id)) =>
              ~Has(labels', fx'.id) /\ NotifiedOnce
      ]_vars

\* C14 witness: a Save that gave an existing label another text, while the label the
\* modal created is in the collection too, and the host was told of both
C14_Witness ==
    /\ fx.op = "save" /\ fx.id = HostId
    /\ Has(labels, HostId) /\ Get(labels, HostId).text = "B"
    /\ Has(labels, CreatedId)
    /\ Len(fx.notified) = 1 /\ Len(fx.notified[1]) = 2

\* C20: Save in the modal of an existing label calls onLabelsUpdate only if the save
\* changed the label (its text, an option or its anchor differs from what was
\* stored); a save of the form as it opened tells the host nothing.
C20_SaveNotifiesOnlyOnChange ==
    [][ (fx'.op = "save" /\ fx'.id # NoId /\ Has(labels, fx'.id) /\ fx'.notified # <<>>) =>
            LabelChanged(fx'.id)
      ]_vars

\* The side a label is drawn on under a camera: the side opposite the intended one
\* when the flip rule holds, the intended side otherwise
DrawnOptions(o, cam) ==
    IF FlipRule(o, cam) THEN WithSide(o, Opposite(o.connectorPosition)) ELSE o

\* The geometry of a label as its options and the camera alone give it
DerivedGeometry(label, cam) ==
    LET o == label.options
        drawn == DrawnOptions(o, cam)
        target == calculateVisualOffset(drawn)
        z == IF FlipRule(o, cam) THEN FlipZ ELSE 0
    IN  /\ label.currentAppliedOffset = target
        /\ label.background.position = <<target[1], target[2], z>>
        /\ label.textSprite.position = <<target[1], target[2], z + LayerZ>>
        /\ label.connector # NullObj =>
               /\ label.connector.start = calculateConnectorStartPoint(target, drawn)
               /\ label.connector.end = Zero3
               /\ label.connector.z = z - LayerZ
        /\ label.container.quaternion = cam.quaternion

\* C15: after update(), the applied offset, the background and text positions and the
\* connector start of each label are given by the label's options and the camera
\* alone, whatever the frames before did (which camera positions they saw, whether
\* they flipped the label); and an update() right after an update(), with the
\* camera unchanged, changes no label.
C15_GeometryHistoryFree ==
    [][ fx'.op = "update" =>
            /\ \A i \in 1..Len(labels') : DerivedGeometry(labels'[i].label, camera')
            /\ fx.op = "update" => labels' = labels
      ]_vars

\* C15 witness: a frame on a flipped label that wrote nothing, because an earlier
\* frame under the same camera had flipped it
C15_Witness ==
    /\ fx.op = "update"
    /\ Len(labels) = 1
    /\ fx.frames[1].needsFlip /\ ~fx.frames[1].wrote
    /\ HasOffset(LabelAt(1).options)

\* C16: in update(), a label whose computed offset equals the offset applied to it
\* keeps its background and text x/y positions and its connector geometry and is not
\* written; a label whose computed offset differs is written, after which the
\* applied offset is the computed one.
C16_WritesOnlyOnChange ==
    [][ (fx'.op = "update" /\ camera # NullObj) =>
            \A i \in 1..Len(labels) :
                LET pre == labels[i].label
                    post == labels'[i].label
                    computed == targetVisualOffset(pre.options, camera)
                IN  IF pre.currentAppliedOffset = computed
                    THEN /\ ~fx'.frames[i].wrote
                         /\ post.background.position[1] = pre.background.position[1]
                         /\ post.background.position[2] = pre.background.position[2]
                         /\ post.textSprite.position[1] = pre.textSprite.position[1]
                         /\ post.textSprite.position[2] = pre.textSprite.position[2]
                         /\ pre.connector # NullObj =>
                                /\ post.connector.start = pre.connector.start
                                /\ post.connector.end = pre.connector.end
                         /\ post.currentAppliedOffset = pre.currentAppliedOffset
                    ELSE /\ fx'.frames[i].wrote
                         /\ post.background.position[1] = computed[1]
                         /\ post.background.position[2] = computed[2]
                         /\ post.textSprite.position[1] = computed[1]
                         /\ post.textSprite.position[2] = computed[2]
                         /\ post.currentAppliedOffset = computed
      ]_vars

\* C16 witness: a frame that wrote a label back to its intended side, after a frame
\* that had flipped it
C16_Witness ==
    /\ fx.op = "update"
    /\ Len(labels) = 1
    /\ fx.frames[1].wrote /\ ~fx.frames[1].needsFlip

\* ---------------------------------------------------------------------------------
\* Properties of the visibility
\* ---------------------------------------------------------------------------------

\* A label that is in the collection and hidden: container and option both off
Hidden(ls, id) ==
    /\ Has(ls, id)
    /\ ~Get(ls, id).container.visible
    /\ ~Get(ls, id).options.visible

\* C17: a label hidden by setLabelVisibility(id, false) stays hidden, container and
\* option, through update() frames, viewer updates, updateLabelPosition, saved edits,
\* edit-mode clicks and show()/hide(), until setLabelVisibility is called on it again
\* or it is removed or added again; and show()/hide() change the visibility of the
\* group and no label.
C17_HiddenStaysHidden ==
    [][ /\ \A id \in {HostId, CreatedId} :
              ( /\ Has(labels, id)
                /\ ~Get(labels, id).container.visible
                /\ Has(labels', id)
                /\ ~(fx'.op \in {"setLabelVisibility", "addLabel"} /\ fx'.id = id) )
              => Hidden(labels', id)
        /\ fx'.op = "show" => labels' = labels
      ]_vars

\* C17 witness: a label added visible on its left side, hidden afterwards, and still
\* hidden after a frame that turned it to the camera behind it
C17_Witness ==
    /\ fx.op \in {"update", "viewer.update"}
    /\ Hidden(labels, HostId)
    /\ Get(labels, HostId).options.backgroundColor = "#12"
    /\ Len(fx.frames) = 1 /\ fx.frames[1].needsFlip

-----------------------------------------------------------------------------
(* Presets (src/unnamed/part_002, the later version of the class): the       *)
(* preset list, the buttons it renders, the listeners it registers on the    *)
(* document, and the viewer that answers its requests for the camera state.  *)
(* Camera coordinates are integers in units of 0.001.  An index is 0-based   *)
(* as in the source; the element at index i of an array a is a[i + 1].       *)

\* An index of a sparse array that holds no element (reads give undefined)
Hole == [hole |-> TRUE]
IsHole(preset) == "hole" \in DOMAIN preset

MaxPresets == 9
DigitKey(n) == "Digit" \o ToString(n)

\* updatedPresets[index] = value: an index past the end leaves holes before it
ArraySet(a, index, value) ==
    IF index < Len(a) THEN [a EXCEPT ![index + 1] = value]
    ELSE a \o [i \in 1..(index - Len(a)) |-> Hole] \o <<value>>

\* updatedPresets.splice(index, 1)
Splice1(a, index) == SubSeq(a, 1, index) \o SubSeq(a, index + 2, Len(a))

\* presets.findIndex((preset) => preset.key === code): the index, -1 for none, and
\* "TypeError" where the scan reads the key of a hole before it finds the code
findIndexByKey(presets, code) ==
    LET stops == {i \in 1..Len(presets) : IsHole(presets[i])
                                          \/ ("key" \in DOMAIN presets[i] /\ presets[i].key = code)}
        first == CHOOSE i \in stops : \A j \in stops : i <= j
    IN  IF stops = {} THEN [index |-> -1, threw |-> FALSE]
        ELSE IF IsHole(presets[first]) THEN [index |-> -1, threw |-> TRUE]
        ELSE [index |-> first - 1, threw |-> FALSE]

\* The state of a Presets method while it runs: the fields of the instance, the
\* calls made to the host, and whether the method ended in an exception
onPresetSelected(b, preset) ==
    [b EXCEPT !.calls = Append(@, <<"onPresetSelected", preset>>)]
onUpdate(b) ==
    [b EXCEPT !.calls = Append(@, <<"onUpdate", b.presets>>)]
alert(b) ==
    [b EXCEPT !.calls = Append(@, <<"alert">>)]

updatePresetIds(b) ==
    LET sliced == SubSeq(b.presets, 1, IF Len(b.presets) < MaxPresets THEN Len(b.presets)
                                        ELSE MaxPresets)
    IN  [b EXCEPT !.presets =
            [i \in 1..Len(sliced) |->
                IF IsHole(sliced[i]) THEN Hole
                ELSE Spread(sliced[i],
                            [ id |-> i, key |-> DigitKey(i),
                              label |-> IF "label" \in DOMAIN sliced[i]
                                        THEN sliced[i].label ELSE "" ])]]

\* renderPresetButtons(): the buttons of the panel after it.  buttons is the number
\* of preset buttons (data-preset-index 0 .. buttons - 1), placeholder the index of
\* the "+" button or -1, deleteButtons whether each button carries its delete
\* button.  Reading preset.key of a hole throws after the panel was emptied.
renderPresetButtons(b) ==
    LET emptied == [b EXCEPT !.buttons = 0, !.placeholder = -1, !.deleteButtons = FALSE,
                             !.adminButton = "none"]
        edit == b.role = "admin" /\ b.editMode
    IN  IF Len(b.presets) = 0 /\ b.role # "admin" THEN emptied
        ELSE IF \E i \in 1..Len(b.presets) : IsHole(b.presets[i])
        THEN [emptied EXCEPT !.threw = TRUE]
        ELSE [emptied EXCEPT
                !.buttons = Len(b.presets),
                !.deleteButtons = edit,
                !.placeholder = IF edit /\ Len(b.presets) < MaxPresets
                                THEN Len(b.presets) ELSE -1]

\* renderAdminControls(): the edit mode button, "enter" for the one that sets edit
\* mode, "toggle" for the one that flips it
renderAdminControls(b) ==
    [b EXCEPT !.adminButton = IF Len(b.presets) = 0 /\ ~b.editMode THEN "enter" ELSE "toggle"]

\* setupEventListeners(): handleKeyDown.bind(this) and handleKeyUp.bind(this) are
\* new function objects at each call, the click listener is a new arrow function
setupEventListeners(b) ==
    LET b1 == IF ~b.isMobile
              THEN [b EXCEPT !.keydown = Append(@, "handleKeyDown.bind(this)"),
                             !.keyup = Append(@, "handleKeyUp.bind(this)")]
              ELSE b
    IN  [b1 EXCEPT !.click = Append(@, "(event) => {...}")]

\* document.removeEventListener(type, listener): removes the listener that is the
\* same function object, if it is registered
removeEventListener(listeners, listener) ==
    IF \E i \in 1..Len(listeners) : listeners[i] = listener
    THEN LET i == CHOOSE k \in 1..Len(listeners) :
                      listeners[k] = listener /\ \A j \in 1..(k - 1) : listeners[j] # listener
         IN  SubSeq(listeners, 1, i - 1) \o SubSeq(listeners, i + 1, Len(listeners))
    ELSE listeners

\* The pressed class of a button follows keysPressed[data-key] (updateHighlights)
SetKey(keysPressed, code, value) ==
    [c \in (DOMAIN keysPressed) \cup {code} |-> IF c = code THEN value ELSE keysPressed[c]]

handleKeyDown(b, code) ==
    LET found == findIndexByKey(b.presets, code)
    IN  IF found.threw THEN [b EXCEPT !.threw = TRUE]
        ELSE IF found.index # -1
        THEN onPresetSelected([b EXCEPT !.keysPressed = SetKey(@, code, TRUE)],
                              b.presets[found.index + 1])
        ELSE b

handleKeyUp(b, code) ==
    LET found == findIndexByKey(b.presets, code)
    IN  IF found.threw THEN [b EXCEPT !.threw = TRUE]
        ELSE IF found.index # -1
        THEN [b EXCEPT !.keysPressed = SetKey(@, code, FALSE)]
        ELSE b

\* The camera states the viewer answers with; NoVec is an answer without arguments
CameraEpsilon == 1
CameraStates ==
    { [position |-> <<1000, 2000, 3000>>, lookAt |-> <<0, 0, 0>>],
      [position |-> <<0, 0, 0>>, lookAt |-> <<0, 0, 0>>],
      [position |-> NoVec, lookAt |-> NoVec] }

isValidCameraState(cameraState) ==
    IF cameraState.position = NoVec \/ cameraState.lookAt = NoVec THEN FALSE
    ELSE LET hasNonZeroPosition ==
                 \E i \in DOMAIN cameraState.position :
                     Abs(cameraState.position[i]) > CameraEpsilon
             hasNonZeroLookAt ==
                 \E i \in DOMAIN cameraState.lookAt : Abs(cameraState.lookAt[i]) > CameraEpsilon
         IN  hasNonZeroPosition \/ hasNonZeroLookAt

\* The statements handleCreatePreset, handleDeletePreset and handleSaveCurrentView
\* end with: renumber, render, notify, register the listeners again
renumberRenderNotify(b) ==
    LET b1 == renderPresetButtons(updatePresetIds(b))
    IN  IF b1.threw THEN b1
        ELSE setupEventListeners(onUpdate(renderAdminControls(b1)))

\* The callback handleCreatePreset(index) passes to getCurrentCameraState
createPresetCallback(b, index, cameraState) ==
    IF isValidCameraState(cameraState)
    THEN LET newPreset == [position |-> cameraState.position, lookAt |-> cameraState.lookAt]
             updatedPresets == IF index < Len(b.presets)
                               THEN [b.presets EXCEPT ![index + 1] = newPreset]
                               ELSE Append(b.presets, newPreset)
         IN  renumberRenderNotify([b EXCEPT !.presets = updatedPresets])
    ELSE alert(b)

\* The callback handleOverwritePreset(index) passes to getCurrentCameraState; preset
\* is this.presets[index] as it was when the request was made
overwritePresetCallback(b, index, preset, cameraState) ==
    IF isValidCameraState(cameraState)
    THEN LET updatedPreset ==
                 Spread(IF IsHole(preset) THEN NoOptions ELSE preset,
                        [position |-> cameraState.position, lookAt |-> cameraState.lookAt])
         IN  onUpdate([b EXCEPT !.presets = ArraySet(@, index, updatedPreset)])
    ELSE alert(b)

\* The callback handleSaveCurrentView() passes to getCurrentCameraState
saveCurrentViewCallback(b, cameraState) ==
    IF isValidCameraState(cameraState)
    THEN LET newPreset == [position |-> cameraState.position, lookAt |-> cameraState.lookAt]
         IN  IF Len(b.presets) < MaxPresets
             THEN renumberRenderNotify([b EXCEPT !.presets = Append(@, newPreset)])
             ELSE alert(b)
    ELSE alert(b)

\* The viewer calls event.detail.callback(position, lookAt)
cameraStateCallback(b, request, cameraState) ==
    CASE request.kind = "create" -> createPresetCallback(b, request.index, cameraState)
      [] request.kind = "overwrite" ->
            overwritePresetCallback(b, request.index, request.preset, cameraState)
      [] request.kind = "save" -> saveCurrentViewCallback(b, cameraState)

\* getCurrentCameraState(callback): the request-camera-state event reaches the
\* viewer, which answers inside the dispatch (reply.when = "now") or after it
\* ("later": the request waits in pending)
getCurrentCameraState(b, request, reply) ==
    IF reply.when = "now" THEN cameraStateCallback(b, request, reply.state)
    ELSE [b EXCEPT !.pending = Append(@, request)]

handleCreatePreset(b, index, reply) ==
    IF b.role # "admin" \/ ~b.editMode THEN b
    ELSE getCurrentCameraState(b, [kind |-> "create", index |-> index, preset |-> Hole], reply)

handleDeletePreset(b, index) ==
    IF b.role # "admin" \/ ~b.editMode \/ index < 0 \/ index >= Len(b.presets) THEN b
    ELSE renumberRenderNotify([b EXCEPT !.presets = Splice1(@, index)])

handleOverwritePreset(b, index, reply) ==
    IF b.role # "admin" \/ ~b.editMode \/ index < 0 \/ index >= Len(b.presets) THEN b
    ELSE getCurrentCameraState(
             b, [kind |-> "overwrite", index |-> index, preset |-> b.presets[index + 1]], reply)

handleSaveCurrentView(b, reply) ==
    IF b.role # "admin" \/ ~b.editMode THEN b
    ELSE getCurrentCameraState(b, [kind |-> "save", index |-> -1, preset |-> Hole], reply)

\* handleButtonClick(event), for a button with data-preset-index = index
handleButtonClick(b, index, reply) ==
    IF index >= 0 /\ index < Len(b.presets)
    THEN IF b.role = "admin" /\ b.editMode
         THEN handleOverwritePreset(b, index, reply)
         ELSE onPresetSelected(b, b.presets[index + 1])
    ELSE b

\* One click listener of setupEventListeners, for a click on target
clickListener(b, target, reply) ==
    LET b1 == IF target.cls = "preset-button"
              THEN handleButtonClick(b, target.index, reply)
              ELSE b
    IN  IF b1.role = "admin" /\ b1.editMode /\ target.cls = "preset-empty"
        THEN handleCreatePreset(b1, target.index, reply)
        ELSE b1

\* The document dispatches an event to the listeners that were registered when the
\* dispatch began, in order; an exception in one does not stop the others
RECURSIVE dispatchEvent(_, _, _, _)
dispatchEvent(b, event, reply, n) ==
    IF n = 0 THEN b
    ELSE LET b1 == CASE event.type = "click" -> clickListener(b, event.target, reply)
                     [] event.type = "keydown" -> handleKeyDown(b, event.code)
                     [] event.type = "keyup" -> handleKeyUp(b, event.code)
         IN  dispatchEvent(b1, event, reply, n - 1)

\* The click listener of the edit mode button
editModeButtonClicked(b) ==
    LET b1 == renderPresetButtons(
                  [b EXCEPT !.editMode = IF b.adminButton = "enter" THEN TRUE ELSE ~@])
    IN  IF b1.threw THEN b1 ELSE renderAdminControls(b1)

setPresets(b, presets) ==
    LET b1 == renderPresetButtons(updatePresetIds([b EXCEPT !.presets = presets]))
    IN  IF b1.threw THEN b1 ELSE setupEventListeners(b1)

setRole(b, role) ==
    LET b1 == renderPresetButtons([b EXCEPT !.role = role, !.editMode = FALSE])
    IN  IF b1.threw THEN b1
        ELSE setupEventListeners(IF role = "admin" THEN renderAdminControls(b1) ELSE b1)

\* dispose(): this.handleKeyDown and this.handleKeyUp are the methods of the
\* prototype, not the bound functions that were registered
presetsDispose(b) ==
    [b EXCEPT !.keydown = removeEventListener(@, "handleKeyDown"),
              !.keyup = removeEventListener(@, "handleKeyUp"),
              !.attached = FALSE]

\* new Presets(container, options), on a device that is mobile or not
presetsConstructor(options, isMobile) ==
    LET b0 == [ presets |-> options.presets,
                keysPressed |-> NoOptions,
                role |-> options.role,
                editMode |-> FALSE,
                isMobile |-> isMobile,
                display |-> IF options.hide THEN "none" ELSE "flex",
                attached |-> FALSE,
                buttons |-> 0, placeholder |-> -1, deleteButtons |-> FALSE,
                adminButton |-> "none",
                keydown |-> <<>>, keyup |-> <<>>, click |-> <<>>,
                pending |-> <<>>,
                calls |-> <<>>, threw |-> FALSE ]
        b1 == renderPresetButtons(updatePresetIds(b0))
        b2 == IF b1.role = "admin" THEN renderAdminControls(b1) ELSE b1
    IN  setupEventListeners([b2 EXCEPT !.attached = TRUE])

\* The fields of the instance, without the log of the method that ran
PresetsFields ==
    { "presets", "keysPressed", "role", "editMode", "isMobile", "display", "attached",
      "buttons", "placeholder", "deleteButtons", "adminButton", "keydown", "keyup", "click",
      "pending" }

\* The instance as a method finds it
CurPresets == Spread(presetsBar, [calls |-> <<>>, threw |-> FALSE])

MaxListeners == 2
MaxPending == 1

CommitPresets(op, b) ==
    /\ Len(b.click) <= MaxListeners
    /\ Len(b.pending) <= MaxPending
    /\ presetsBar' = [k \in PresetsFields |-> b[k]]
    /\ fx' = [NoFx(op, NoId) EXCEPT !.calls = b.calls, !.threw = b.threw]
    /\ UNCHANGED <<labels, groupChildren, labelsGroup, camera, editMode, selectedLabelId,
                   editUI, pendingCursorPosition, clickHandler, callbacks, form>>

\* The panel is in the document and shown, so that its buttons can be clicked
Clickable == presetsBar.attached /\ presetsBar.display # "none"

\* A key goes down (type = "keydown") or up ("keyup")
PresetsKey(type, code) ==
    CommitPresets("presets." \o type,
                  dispatchEvent(CurPresets, [type |-> type, code |-> code], [when |-> "later"],
                                Len(presetsBar[type])))

\* A click on a preset button, on the "+" button, or elsewhere in the document
PresetsClick(target, reply) ==
    /\ \/ target.cls = "other"
       \/ Clickable /\ target.cls = "preset-button" /\ target.index < presetsBar.buttons
       \/ Clickable /\ target.cls = "preset-empty" /\ target.index = presetsBar.placeholder
    /\ CommitPresets("presets.click",
                     dispatchEvent(CurPresets, [type |-> "click", target |-> target], reply,
                                   Len(presetsBar.click)))

\* A click on the delete button of a preset button (it stops the propagation)
PresetsClickDelete(index) ==
    /\ Clickable /\ presetsBar.deleteButtons /\ index < presetsBar.buttons
    /\ CommitPresets("presets.delete", handleDeletePreset(CurPresets, index))

PresetsClickEditMode ==
    /\ Clickable /\ presetsBar.adminButton # "none"
    /\ CommitPresets("presets.editMode", editModeButtonClicked(CurPresets))

PresetsSaveCurrentView(reply) ==
    CommitPresets("presets.saveCurrentView", handleSaveCurrentView(CurPresets, reply))

PresetsSetPresets(presets) ==
    CommitPresets("presets.setPresets", setPresets(CurPresets, presets))

PresetsSetRole(role) ==
    /\ role # presetsBar.role
    /\ CommitPresets("presets.setRole", setRole(CurPresets, role))

\* show() and hide()
PresetsShowHide(visible) ==
    CommitPresets("presets.show",
                  [CurPresets EXCEPT !.display =
                      IF visible /\ ~(Len(presetsBar.presets) = 0 /\ presetsBar.role # "admin")
                      THEN "flex" ELSE "none"])

PresetsDispose ==
    /\ presetsBar.attached
    /\ CommitPresets("presets.dispose", presetsDispose(CurPresets))

\* The viewer answers the oldest request-camera-state event it has not answered
ViewerAnswers(cameraState) ==
    /\ presetsBar.pending # <<>>
    /\ CommitPresets("presets.cameraState",
                     cameraStateCallback([CurPresets EXCEPT !.pending = Tail(@)],
                                         Head(presetsBar.pending), cameraState))

\* The inputs of the presets specification
HostPreset(n) == [position |-> <<n, 0, 0>>, lookAt |-> <<0, 0, 0>>]
HostPresetLists ==
    { <<>>,
      <<[label |-> "Front", position |-> <<0, 0, 1000>>, lookAt |-> <<0, 0, 0>>], HostPreset(2)>>,
      [i \in 1..(MaxPresets + 1) |-> HostPreset(i)] }
PresetsOptions ==
    { [presets |-> l, role |-> r, hide |-> FALSE] : l \in HostPresetLists, r \in {"admin", "user"} }
KeyCodes == {"Digit1", "KeyA"}
ClickTargets ==
    { [cls |-> "preset-button", index |-> 0], [cls |-> "preset-button", index |-> 1],
      [cls |-> "preset-empty", index |-> 0], [cls |-> "preset-empty", index |-> 2],
      [cls |-> "other", index |-> -1] }
ViewerReplies ==
    { [when |-> "now", state |-> st] : st \in CameraStates } \cup { [when |-> "later"] }

NextPresets ==
    \/ \E type \in {"keydown", "keyup"}, code \in KeyCodes : PresetsKey(type, code)
    \/ \E target \in ClickTargets, reply \in ViewerReplies : PresetsClick(target, reply)
    \/ \E index \in {0, 1} : PresetsClickDelete(index)
    \/ PresetsClickEditMode
    \/ \E reply \in ViewerReplies : PresetsSaveCurrentView(reply)
    \/ \E l \in HostPresetLists : PresetsSetPresets(l)
    \/ \E role \in {"admin", "user"} : PresetsSetRole(role)
    \/ \E visible \in BOOLEAN : PresetsShowHide(visible)
    \/ PresetsDispose
    \/ \E st \in CameraStates : ViewerAnswers(st)

\* The page constructs the Presets component; no FloatingLabels call is made
InitPresets ==
    /\ labels = <<>>
    /\ groupChildren = {}
    /\ labelsGroup = [visible |-> TRUE, inScene |-> TRUE]
    /\ camera = NullObj
    /\ editMode = FALSE
    /\ selectedLabelId = NoId
    /\ editUI = [display |-> "none"]
    /\ pendingCursorPosition = NoVec
    /\ clickHandler = TRUE
    /\ callbacks = [onLabelsUpdate |-> TRUE, onModalOpen |-> TRUE, onModalClose |-> TRUE]
    /\ form = EmptyForm
    /\ \E options \in PresetsOptions, isMobile \in BOOLEAN :
           presetsBar = [k \in PresetsFields |-> presetsConstructor(options, isMobile)[k]]
    /\ fx = NoFx("presets.constructor", NoId)

SpecPresets == InitPresets /\ [][NextPresets]_vars

-----------------------------------------------------------------------------
(* Properties of the presets *)

\* C18: after Presets.dispose() has returned (the panel is out of the document), a
\* key press or release of a Digit key and a click call neither onPresetSelected nor
\* onUpdate and leave keysPressed as it was.
C18_DisposeCleansUp ==
    [][ ( /\ ~presetsBar.attached
          /\ fx'.op \in {"presets.keydown", "presets.keyup", "presets.click"} )
        => /\ \A i \in 1..Len(fx'.calls) :
                  fx'.calls[i][1] \notin {"onPresetSelected", "onUpdate"}
           /\ presetsBar'.keysPressed = presetsBar.keysPressed
      ]_vars

-----------------------------------------------------------------------------
(* Properties of edit mode, selection and the modal *)

\* The background of a label shows what its options save: the saved color when that
\* is a "#rrggbb" value, in no case the purple of edit mode or the orange of the
\* selection (unless the options save that very color), the saved opacity, and no
\* originalColor / originalOpacity is kept
ShowsSavedOptions(label) ==
    label.background # NullObj =>
        /\ label.options.backgroundColor \in WellFormedHex =>
               label.background.color = label.options.backgroundColor
        /\ label.background.color \in {EditModeColor, SelectedColor} =>
               label.background.color = label.options.backgroundColor
        /\ label.background.opacity = label.options.opacity
        /\ label.original = NullObj

\* C21: whenever toggleEditMode() turns edit mode off, afterwards every label's
\* background color and opacity are the ones saved in its options (no edit-mode
\* purple, no selection orange), its stored original color and opacity are cleared,
\* no label is selected and the modal is hidden.
C21_EditModeOffRestores ==
    [][ (fx'.op = "toggleEditMode" /\ ~editMode' /\ ~fx'.threw) =>
            /\ \A i \in 1..Len(labels') : ShowsSavedOptions(labels'[i].label)
            /\ selectedLabelId' = NoId
            /\ editUI'.display = "none"
      ]_vars

\* C22: after every update() with a camera and at least one label, each label that
\* has a background is layered in depth: connector z < background z < text z; the
\* background is at z = 0 when the label is not flipped and in front of it when it
\* is, and connector and text keep their distance to the background in both cases.
C22_DepthOrder ==
    (fx.op = "update" /\ camera # NullObj /\ Len(labels) > 0) =>
        \A i \in 1..Len(labels) :
            LET label == LabelAt(i)
                flipped == fx.frames[i].needsFlip
                base == label.background.position[3]
            IN  label.background # NullObj =>
                    /\ label.connector # NullObj => label.connector.z < base
                    /\ base < label.textSprite.position[3]
                    /\ IF flipped THEN base > 0 ELSE base = 0
                    /\ label.textSprite.position[3] - base = LayerZ
                    /\ label.connector # NullObj => base - label.connector.z = LayerZ

\* C22 witness: a frame over a flipped label with a connector and an explicit offset
\* that has a z of its own, which wrote nothing
C22_Witness ==
    /\ fx.op = "update"
    /\ Len(labels) = 1
    /\ fx.frames[1].needsFlip /\ ~fx.frames[1].wrote
    /\ LabelAt(1).connector # NullObj
    /\ HasOffset(LabelAt(1).options) /\ LabelAt(1).options.offset[3] # 0

\* C23: dispose() on an instance that was disposed of before (its labels group is
\* null) completes without an exception, leaves the state as it is and calls no
\* callback.
C23_DisposeIdempotent ==
    [][ (fx'.op = "dispose" /\ labelsGroup = NullObj) =>
            /\ ~fx'.threw
            /\ fx'.notified = <<>> /\ fx'.modalOpen = 0 /\ fx'.modalClose = 0
            /\ UNCHANGED <<labels, groupChildren, labelsGroup, camera, editMode,
                           selectedLabelId, editUI, pendingCursorPosition, clickHandler,
                           callbacks, form>>
      ]_vars

-----------------------------------------------------------------------------
(* Properties of the collection and the labels group under every operation *)

Handles(ls) == {ls[i].label.container.handle : i \in 1..Len(ls)}

\* The Map and the children of the labels group match one to one
OneToOne(ls, children) ==
    /\ \A i, j \in 1..Len(ls) : ls[i].id = ls[j].id => i = j
    /\ \A i, j \in 1..Len(ls) :
          ls[i].label.container.handle = ls[j].label.container.handle => i = j
    /\ children = Handles(ls)

\* C24: after every operation on the collection (addLabel, addLabels, removeLabel,
\* clearAllLabels, updateLabelText, updateLabelPosition, the modal's Save and Delete)
\* the Map and the children of the labels group match one to one: every id has one
\* label, its container is a child of the group, and the group holds no other
\* container.  addLabel with an id of the Map releases the old label, puts the new
\* one in its place and leaves the size of the Map as it was.
C24_CollectionMatchesGroup ==
    [][ /\ OneToOne(labels', groupChildren')
        /\ (fx'.op = "addLabel" /\ Has(labels, fx'.id) /\ ~fx'.threw) =>
              LET id == fx'.id
              IN  /\ Len(labels') = Len(labels)
                  /\ KeysOf(labels') = KeysOf(labels)
                  /\ ReleasedByStep(Get(labels, id), fx')
                  /\ Get(labels', id).original = NullObj
                  /\ Get(labels', id).background.color = newColor(Get(labels', id).options.backgroundColor)
                  /\ \A other \in KeysOf(labels) \ {id} : Get(labels', other) = Get(labels, other)
      ]_vars

\* C24 witness: addLabel replaced a label while the Map held another one
C24_Witness ==
    /\ fx.op = "addLabel"
    /\ Len(fx.released) > 0
    /\ Len(labels) = 2
    /\ OneToOne(labels, groupChildren)

\* C25: for every label of the collection, after every operation that sets a position
\* (addLabel, updateLabelPosition, updateLabelText, the modal's Save), the
\* connectorTarget of its options equals the position of its container.
C25_TargetIsPosition ==
    \A i \in 1..Len(labels) :
        labels[i].label.options.connectorTarget = labels[i].label.container.position

\* What the user does: a click on the canvas, the edit mode switch, a label created at
\* the mesh cursor, typing in the modal and its Save, Cancel and Delete buttons
UserOps == {"click", "toggleEditMode", "createLabelAtCursor", "type", "save", "cancel", "delete"}

\* A selection and a visible modal need edit mode, and the selected id is in the Map
SelectionInEditMode(ls, mode, selected, ui) ==
    /\ (selected # NoId \/ (ui # NullObj /\ ui.display # "none")) => mode
    /\ selected # NoId => Has(ls, selected)

\* C26: under the user's events (canvas click, toggleEditMode, createLabelAtCursor,
\* Save, Cancel, Delete) a label is selected or the modal is visible only while edit
\* mode is on, and the selected id is the id of a label of the collection: every such
\* event keeps this true.  While edit mode is off a canvas click, selectLabel and
\* createLabelAtCursor change nothing and call nothing.
C26_SelectionNeedsEditMode ==
    [][ /\ (fx'.op \in UserOps /\ SelectionInEditMode(labels, editMode, selectedLabelId, editUI))
              => SelectionInEditMode(labels', editMode', selectedLabelId', editUI')
        /\ (~editMode /\ fx'.op \in {"click", "selectLabel", "createLabelAtCursor"}) =>
              /\ UNCHANGED <<labels, groupChildren, labelsGroup, camera, editMode,
                             selectedLabelId, editUI, pendingCursorPosition, clickHandler,
                             callbacks, form>>
              /\ fx'.notified = <<>> /\ fx'.modalOpen = 0 /\ fx'.modalClose = 0
              /\ ~fx'.threw
      ]_vars

\* C26 witness: a click selected a label and opened the modal for it, in edit mode
C26_Witness ==
    /\ fx.op = "click"
    /\ editMode
    /\ selectedLabelId # NoId /\ Has(labels, selectedLabelId)
    /\ editUI.display # "none"

\* C27: onModalOpen and onModalClose alternate, onModalOpen first.  A user event
\* (canvas click, createLabelAtCursor, Save, Cancel, Delete, toggleEditMode) calls
\* onModalClose only when the modal was shown, calls onModalOpen only when the modal
\* was hidden, and calls neither of them twice.
C27_ModalCallbacksAlternate ==
    [][ fx'.op \in UserOps =>
          LET shown == editUI # NullObj /\ editUI.display # "none"
          IN  /\ fx'.modalOpen + fx'.modalClose <= 1
              /\ fx'.modalClose > 0 => shown
              /\ fx'.modalOpen > 0 => ~shown
      ]_vars

====
